---------------------------- MODULE Spec2Model ----------------------------
(***************************************************************************)
(* FollowChat backend: the SQLite message tree store                       *)
(* (backend/database/crud.py), the reply orchestrator                      *)
(* (backend/app/main.py) and the upstream chat client                      *)
(* (backend/llm/client.py).                                                *)
(*                                                                         *)
(* Text is modelled as a sequence of characters, each character a          *)
(* one-element token.  ASCII characters stand for themselves; the CJK      *)
(* characters of the source are written as ASCII tokens (listed below)     *)
(* because the module text is ASCII.  NULL columns / Python None of an     *)
(* optional text are <<>>, a present text s is <<s>>; a NULL id is 0       *)
(* (AUTOINCREMENT ids start at 1).                                         *)
(***************************************************************************)
EXTENDS Integers, Sequences, FiniteSets, TLC

VARIABLES
    conversations,  \* table conversations: id -> [title]
    messages,       \* table messages: id -> row
    nextConvId,     \* sqlite_sequence of conversations (ids are never reused)
    nextMsgId,      \* sqlite_sequence of messages
    config,         \* table configs: the model_name of row 1, NULL without row
    pc,             \* per request thread: position in the handler it runs
    loc,            \* per request thread: the handler's local variables
    frames,         \* per request thread: NDJSON frames written to the response
    calls,          \* per request thread: calls made on the upstream client
    trace,          \* per request thread: what the handler did, in order
    result,         \* per request thread: outcome of the handler that just ended
    edited          \* history: conversations that lost a message or had one
                    \* renumbered (written by no handler, read by none)

vars == <<conversations, messages, nextConvId, nextMsgId, config, pc, loc,
          frames, calls, trace, result, edited>>

---------------------------------------------------------------------------
(* Bounds of the model.                                                    *)

\* request threads of the server's thread pool that are modelled
NumThreads == 2
\* message rows ever inserted
MaxMsgs == 3
\* conversation rows ever inserted
MaxConvs == 2
\* largest order_index a PATCH /messages request supplies
MaxOrder == 1
\* message rows and conversation rows ever inserted while the reply
\* pipeline is followed frame by frame
ReplyMaxMsgs == 2
ReplyMaxConvs == 1
\* fragments one upstream stream delivers
MaxFrags == 2

Threads == 1..NumThreads

---------------------------------------------------------------------------
(* Text.                                                                   *)

NoId == 0
NULL == <<>>
Some(s) == <<s>>
IsNull(o) == o = <<>>
Get(o) == o[1]

\* CJK characters of main.py, as tokens
c_ni == "ni"          \* U+4F60
c_shi == "shi"        \* U+662F
c_shei == "shei"      \* U+8C01
c_shen == "shen"      \* U+4EC0
c_me == "me"          \* U+4E48
c_mo == "mo"          \* U+6A21
c_xing == "xing"      \* U+578B
c_zhu == "zhu"        \* U+52A9
c_shou == "shou"      \* U+624B
c_na == "na"          \* U+54EA
c_ge == "ge"          \* U+4E2A
c_yong == "yong"      \* U+7528
c_de == "de"          \* U+7684
c_ji == "ji"          \* U+57FA
c_yu == "yu"          \* U+4E8E
c_jishu == "ji4"      \* U+6280
c_shu == "shu"        \* U+672F
c_jiao == "jiao"      \* U+53EB
c_ming == "ming"      \* U+540D
c_zi == "zi"          \* U+5B57
c_shenfen == "shen1"  \* U+8EAB
c_fen == "fen"        \* U+4EFD
c_ma == "ma"          \* U+5417
c_bu == "bu"          \* U+4E0D
c_fou == "fou"        \* U+5426
c_neng == "neng"      \* U+80FD
c_hui == "hui"        \* U+4F1A
c_qfw == "?fw"        \* U+FF1F fullwidth question mark
c_wo == "wo"          \* U+6211
c_comma == ",fw"      \* U+FF0C
c_wei == "wei"        \* U+4E3A
c_ti == "ti"          \* U+63D0
c_gong == "gong"      \* U+4F9B
c_fenzhi == "fen1"    \* U+5206
c_zhi == "zhi"        \* U+652F
c_dui == "dui"        \* U+5BF9
c_hua == "hua"        \* U+8BDD
c_guan == "guan"      \* U+7BA1
c_li == "li"          \* U+7406
c_stop == ".fw"       \* U+3002
c_xin == "xin"        \* U+65B0

Upper == <<"A","B","C","D","E","F","G","H","I","J","K","L","M",
           "N","O","P","Q","R","S","T","U","V","W","X","Y","Z">>
LowerOf == <<"a","b","c","d","e","f","g","h","i","j","k","l","m",
             "n","o","p","q","r","s","t","u","v","w","x","y","z">>

\* str.lower() on one character
lower_char(c) ==
    IF \E i \in 1..26 : Upper[i] = c
    THEN LowerOf[CHOOSE i \in 1..26 : Upper[i] = c]
    ELSE c

\* str.lower()
lower(s) == [i \in 1..Len(s) |-> lower_char(s[i])]

\* the characters str.strip() removes
IsSpace(c) == c \in {" ", "\n", "\t", "\r"}

\* str.strip(): leading and trailing whitespace removed
strip(s) ==
    IF \A i \in 1..Len(s) : IsSpace(s[i]) THEN <<>>
    ELSE LET a == CHOOSE i \in 1..Len(s) :
                     /\ ~IsSpace(s[i])
                     /\ \A j \in 1..(i - 1) : IsSpace(s[j])
             b == CHOOSE i \in 1..Len(s) :
                     /\ ~IsSpace(s[i])
                     /\ \A j \in (i + 1)..Len(s) : IsSpace(s[j])
         IN SubSeq(s, a, b)

\* s[:n]
Truncate(s, n) == IF Len(s) <= n THEN s ELSE SubSeq(s, 1, n)

\* k occurs in s at position i
OccursAt(s, k, i) ==
    /\ i >= 1
    /\ i + Len(k) - 1 <= Len(s)
    /\ \A j \in 1..Len(k) : s[i + j - 1] = k[j]

\* `k in s`
Contains(s, k) == \E i \in 1..(Len(s) + 1) : OccursAt(s, k, i)


---------------------------------------------------------------------------
(* Program constants of main.py.                                           *)

\* ASSISTANT_SYSTEM_PROMPT; its text is never inspected, one non-empty token
ASSISTANT_SYSTEM_PROMPT == <<"SYS">>

\* SUMMARY_SYSTEM_PROMPT
SUMMARY_SYSTEM_PROMPT == <<"SUMSYS">>

\* MODEL_IDENTITY_RESPONSE, 27 characters
MODEL_IDENTITY_RESPONSE ==
    <<c_wo, c_shi, "F","o","l","l","o","w","C","h","a","t"," ", c_zhu, c_shou,
      c_comma, c_wei, c_ni, c_ti, c_gong, c_fenzhi, c_zhi, c_dui, c_hua,
      c_guan, c_li, c_stop>>

\* the default title of the conversations table and of create_conversation
DEFAULT_TITLE == <<c_xin, c_dui, c_hua>>

\* summary_text[:255] and title_candidate[:255]
TitleMax == 255

WHAT_ARE_YOU == <<"w","h","a","t"," ","a","r","e"," ","y","o","u">>
WHO_ARE_YOU == <<"w","h","o"," ","a","r","e"," ","y","o","u">>
WHAT_MODEL == <<"w","h","a","t"," ","m","o","d","e","l">>
WHICH_MODEL == <<"w","h","i","c","h"," ","m","o","d","e","l">>

\* model_keywords of is_model_related_question
model_keywords ==
    { <<c_ni, c_shi, c_shen, c_me>>,
      <<c_ni, c_shi, c_shei>>,
      <<c_ni, c_shi, c_shen, c_me, c_mo, c_xing>>,
      <<c_ni, c_shi, c_shen, c_me, "a", "i">>,
      <<c_ni, c_shi, c_shen, c_me, c_zhu, c_shou>>,
      <<c_shen, c_me, c_mo, c_xing>>,
      <<c_na, c_ge, c_mo, c_xing>>,
      <<c_yong, c_de, c_shen, c_me>>,
      <<c_ji, c_yu, c_shen, c_me>>,
      <<c_shen, c_me, c_jishu, c_shu>>,
      WHAT_ARE_YOU, WHO_ARE_YOU, WHAT_MODEL, WHICH_MODEL,
      <<c_ni, c_jiao, c_shen, c_me>>,
      <<c_ni, c_de, c_ming, c_zi>>,
      <<c_ni, c_de, c_shenfen, c_fen>> }

\* `.` of a regular expression: any character but a newline
Dot(c) == c # "\n"

\* `$`: the end of the text, or just before a newline that ends it
AtEnd(s, i) == i = Len(s) + 1 \/ (i = Len(s) /\ s[i] = "\n")

\* re.search(head .* tail, s): head, then characters matched by `.`, then tail
SearchDotStar(s, head, tail) ==
    \E i \in 1..(Len(s) + 1) : \E j \in 1..(Len(s) + 1) :
        /\ OccursAt(s, head, i)
        /\ j >= i + Len(head)
        /\ \A k \in (i + Len(head))..(j - 1) : Dot(s[k])
        /\ OccursAt(s, tail, j)

\* re.search(r"<ni><shi>.*<ma>\?*$", s)
SearchNiShiMaEnd(s) ==
    \E i \in 1..(Len(s) + 1) : \E j \in 1..(Len(s) + 1) : \E e \in 1..(Len(s) + 1) :
        /\ OccursAt(s, <<c_ni, c_shi>>, i)
        /\ j >= i + 2
        /\ \A k \in (i + 2)..(j - 1) : Dot(s[k])
        /\ OccursAt(s, <<c_ma>>, j)
        /\ e >= j + 1
        /\ \A k \in (j + 1)..(e - 1) : s[k] = "?"
        /\ AtEnd(s, e)

\* the judgment_patterns of is_model_related_question, searched in s
judgment_match(s) ==
    \/ SearchNiShiMaEnd(s)
    \/ SearchDotStar(s, <<c_ni, c_shi>>, <<c_ma, c_qfw>>)
    \/ SearchDotStar(s, <<c_ni, c_shi>>, <<c_qfw>>)
    \/ SearchDotStar(s, <<c_ni, c_shi>>, <<"?">>)
    \/ Contains(s, <<c_shi, c_bu, c_shi>>)
    \/ Contains(s, <<c_shi, c_fou>>)
    \/ Contains(s, <<c_neng, c_fou>>)
    \/ Contains(s, <<c_hui, c_bu, c_hui>>)

is_model_related_question(content) ==
    LET content_lower == strip(lower(content))
    IN \/ \E keyword \in model_keywords : Contains(content_lower, keyword)
       \/ judgment_match(content_lower)


---------------------------------------------------------------------------
(* The store: tables, constraints and the single-statement operations of   *)
(* crud.py.  Every get_connection() block is one SQLite transaction with   *)
(* PRAGMA foreign_keys = ON.                                               *)

ConvIds == 1..MaxConvs
MsgIds == 1..MaxMsgs

\* rows of `messages` that belong to conversation c
ConvMsgs(msgs, c) == {m \in DOMAIN msgs : msgs[m].conversation_id = c}

SetMax(S) == CHOOSE x \in S : \A y \in S : y <= x

\* a numbering that leaves a gap after every message
next_order_index_skipping(msgs, c) ==
    IF ConvMsgs(msgs, c) = {} THEN 0
    ELSE SetMax({msgs[m].order_index : m \in ConvMsgs(msgs, c)}) + 2

\* SELECT COALESCE(MAX(order_index), -1) ... + 1
next_order_index(msgs, c) ==
    IF ConvMsgs(msgs, c) = {} THEN -1 + 1
    ELSE SetMax({msgs[m].order_index : m \in ConvMsgs(msgs, c)}) + 1

\* FOREIGN KEY (parent_id) REFERENCES messages(id) ON DELETE CASCADE:
\* the rows removed when the rows S are removed
RECURSIVE Cascade(_, _)
Cascade(msgs, S) ==
    LET T == S \cup {m \in DOMAIN msgs : msgs[m].parent_id \in S}
    IN IF T = S THEN S ELSE Cascade(msgs, T)

Restrict(f, S) == [x \in S |-> f[x]]

\* a DELETE that removes the one row and leaves its children
delete_message_alone(msgs, id) == Restrict(msgs, DOMAIN msgs \ {id})

\* DELETE FROM messages WHERE id = ?
delete_message(msgs, id) ==
    Restrict(msgs, DOMAIN msgs \ Cascade(msgs, {id} \cap DOMAIN msgs))

\* a foreign key on conversation_id without ON DELETE CASCADE enforcement
delete_conversation_messages_kept(msgs, c) == msgs

\* the messages left by DELETE FROM conversations WHERE id = ?
\* (FOREIGN KEY (conversation_id) ... ON DELETE CASCADE, then parent_id)
delete_conversation_messages(msgs, c) ==
    Restrict(msgs, DOMAIN msgs \ Cascade(msgs, ConvMsgs(msgs, c)))

\* a messages table without the unique index
UniqueIndexOk_absent(msgs, id, c, idx) == TRUE

\* CREATE UNIQUE INDEX idx_messages_conversation_order
\*     ON messages(conversation_id, order_index)
UniqueIndexOk(msgs, id, c, idx) ==
    \A m \in DOMAIN msgs \ {id} :
        ~(msgs[m].conversation_id = c /\ msgs[m].order_index = idx)

\* the two foreign keys of the messages table
ForeignKeysOk(convs, msgs, c, parent) ==
    /\ c \in DOMAIN convs
    /\ parent = NoId \/ parent \in DOMAIN msgs

\* outcome of the INSERT of create_message
InsertOutcome(convs, msgs, c, idx, parent) ==
    IF ~UniqueIndexOk(msgs, NoId, c, idx) THEN "IntegrityError_UNIQUE"
    ELSE IF ~ForeignKeysOk(convs, msgs, c, parent) THEN "IntegrityError_FOREIGN_KEY"
    ELSE "ok"

NewRow(c, content, idx, parent) ==
    [conversation_id |-> c, content |-> content, order_index |-> idx,
     summary |-> NULL, parent_id |-> parent, assistant_reply |-> NULL]

Extend(f, k, v) == [x \in DOMAIN f \cup {k} |-> IF x = k THEN v ELSE f[x]]

\* the keyword arguments of update_message; an argument left out is None
NoFields ==
    [content |-> NULL, order_index |-> NULL, summary |-> NULL,
     parent_id |-> NULL, assistant_reply |-> NULL]

\* an UPDATE that appends the given content to the stored one
UpdatedRow_appending(row, f) ==
    [conversation_id |-> row.conversation_id,
     content |-> IF IsNull(f.content) THEN row.content
                 ELSE row.content \o Get(f.content),
     order_index |-> IF IsNull(f.order_index) THEN row.order_index
                     ELSE Get(f.order_index),
     summary |-> IF IsNull(f.summary) THEN row.summary ELSE f.summary,
     parent_id |-> IF IsNull(f.parent_id) THEN row.parent_id ELSE Get(f.parent_id),
     assistant_reply |-> IF IsNull(f.assistant_reply) THEN row.assistant_reply
                         ELSE f.assistant_reply]

\* the row after UPDATE messages SET <the given fields> WHERE id = ?
UpdatedRow(row, f) ==
    [conversation_id |-> row.conversation_id,
     content |-> IF IsNull(f.content) THEN row.content ELSE Get(f.content),
     order_index |-> IF IsNull(f.order_index) THEN row.order_index
                     ELSE Get(f.order_index),
     summary |-> IF IsNull(f.summary) THEN row.summary ELSE f.summary,
     parent_id |-> IF IsNull(f.parent_id) THEN row.parent_id ELSE Get(f.parent_id),
     assistant_reply |-> IF IsNull(f.assistant_reply) THEN row.assistant_reply
                         ELSE f.assistant_reply]

\* update_message: [res, msgs] where res is "ok" or the exception raised
update_message(msgs, id, f) ==
    IF f = NoFields THEN [res |-> "ValueError", msgs |-> msgs]
    ELSE IF id \notin DOMAIN msgs THEN [res |-> "ValueError", msgs |-> msgs]
    ELSE LET row == UpdatedRow(msgs[id], f)
         IN IF ~UniqueIndexOk(msgs, id, row.conversation_id, row.order_index)
            THEN [res |-> "IntegrityError_UNIQUE", msgs |-> msgs]
            ELSE IF ~(row.parent_id = NoId \/ row.parent_id \in DOMAIN msgs)
            THEN [res |-> "IntegrityError_FOREIGN_KEY", msgs |-> msgs]
            ELSE [res |-> "ok", msgs |-> [msgs EXCEPT ![id] = row]]

\* the rows of a conversation ORDER BY order_index, as their ids
RECURSIVE SortByOrder(_, _)
SortByOrder(msgs, S) ==
    IF S = {} THEN <<>>
    ELSE LET m == CHOOSE x \in S :
                      \A y \in S : msgs[x].order_index <= msgs[y].order_index
         IN <<m>> \o SortByOrder(msgs, S \ {m})

get_messages_for_conversation(msgs, c) == SortByOrder(msgs, ConvMsgs(msgs, c))

Reverse(s) == [i \in 1..Len(s) |-> s[Len(s) + 1 - i]]

\* the while loop of get_message_path_to_root: the ids collected so far,
\* the id to read next; fuel stops the evaluation of a walk that revisits
\* a row (such a walk never returns)
RECURSIVE path_walk(_, _, _, _)
path_walk(msgs, path, current_id, fuel) ==
    IF current_id = NoId THEN [returns |-> TRUE, path |-> path]
    ELSE IF current_id \notin DOMAIN msgs THEN [returns |-> TRUE, path |-> path]
    ELSE IF fuel = 0 THEN [returns |-> FALSE, path |-> path]
    ELSE path_walk(msgs, Append(path, current_id), msgs[current_id].parent_id,
                   fuel - 1)

\* a walk that returns the path as collected, the starting message first
get_message_path_to_root_unreversed(msgs, message_id) ==
    path_walk(msgs, <<>>, message_id, Cardinality(DOMAIN msgs))

\* get_message_path_to_root, as ids, root first
get_message_path_to_root(msgs, message_id) ==
    LET w == path_walk(msgs, <<>>, message_id, Cardinality(DOMAIN msgs))
    IN [returns |-> w.returns, path |-> Reverse(w.path)]


---------------------------------------------------------------------------
(* Inputs.                                                                 *)

T_hi == <<"h", "i">>
T_who == <<"W", "h", "o", " ", "a", "r", "e", " ", "y", "o", "u">>
T_ai_ma == <<c_ni, c_shi, "A", "I", c_ma, "?">>
T_ni_shi_nl_ma == <<c_ni, c_shi, "\n", c_ma>>
T_blank == <<" ">>
T_padded == <<" ", "h", "i", " ">>

\* MessageCreate.content: any text, the empty text included
CreateContents == {<<>>, T_hi}

\* LLMReplyRequest.content: min_length = 1
ReplyContents == {T_hi, T_who, T_ai_ma, T_ni_shi_nl_ma}

\* ConversationCreate.title
CreateTitles == {DEFAULT_TITLE, <<"t">>}

\* LLMReplyRequest.content of the requests whose title is followed
TitleContents == {T_blank, T_padded, T_who}

\* ConversationUpdate.title
PatchTitles == {<<"m">>, <<>>}

\* the local variables of a handler before it starts
InitLoc ==
    [kind |-> "none", conversation_id |-> NoId, content |-> <<>>,
     payload_parent_id |-> NoId, parent_id |-> NoId, order_index |-> 0,
     title |-> <<>>,
     msg_id |-> NoId, msg_order |-> 0, branch |-> "none", i |-> 0,
     received |-> <<>>, acc |-> <<>>, summary_text |-> NULL,
     fields |-> NoFields, lines |-> <<>>]

\* Config.MODEL_NAME, the default of LLM_MODEL_NAME (gpt-3.5-turbo as a token)
MODEL_NAME == <<"gpt">>

\* ConfigUpdate.model_name: any string, the empty one included
ConfigModels == {MODEL_NAME, <<>>}

\* init_db: the tables exist and are empty
InitTables ==
    /\ conversations = <<>>
    /\ messages = <<>>
    /\ nextConvId = 1
    /\ nextMsgId = 1
    /\ pc = [p \in Threads |-> "idle"]
    /\ loc = [p \in Threads |-> InitLoc]
    /\ frames = [p \in Threads |-> <<>>]
    /\ calls = [p \in Threads |-> <<>>]
    /\ trace = [p \in Threads |-> <<>>]
    /\ result = [p \in Threads |-> "none"]
    /\ edited = {}

\* the application started: lifespan ran init_db and stored the configuration
\* of the environment because the table had none
Init == InitTables /\ config = Some(MODEL_NAME)

\* the module was imported (crud.py runs init_db when the file is missing) and
\* the application serves requests without its lifespan having run
InitImported == InitTables /\ config = NULL

StoreUnchanged ==
    UNCHANGED <<conversations, messages, nextConvId, nextMsgId, edited, config>>

\* the conversations of the rows that msgs2 no longer holds or holds with
\* another order_index
EditedBy(msgs, msgs2) ==
    {msgs[m].conversation_id : m \in {x \in DOMAIN msgs :
        x \notin DOMAIN msgs2 \/ msgs2[x].order_index # msgs[x].order_index}}
ThreadsUnchanged == UNCHANGED <<pc, loc, frames, calls, trace, result>>

\* threads between the start of a handler that inserts a message and its INSERT
Inserting == {p \in Threads : pc[p] \in {"resolve", "cm_read", "cm_insert"}}

\* a handler that inserts a message may start: the cap on rows ever inserted
MayInsert(cap) == nextMsgId + Cardinality(Inserting) <= cap

\* No handler has just ended without its thread being back in the pool.
\* Return touches no table and no other thread, so letting it go first loses
\* no behaviour of the store or of the other handlers.
NoneFinished == \A q \in Threads : pc[q] # "finished"

\* thread p is at position label of its handler and may take its next step
At(p, label) == NoneFinished /\ pc[p] = label

\* an idle thread starts a handler
Begin(p, next_pc, l) ==
    /\ At(p, "idle")
    /\ pc' = [pc EXCEPT ![p] = next_pc]
    /\ loc' = [loc EXCEPT ![p] = l]
    /\ UNCHANGED <<frames, calls, trace, result>>

\* a handler ends with outcome res: its response is complete
Finish(p, res) ==
    /\ pc' = [pc EXCEPT ![p] = "finished"]
    /\ result' = [result EXCEPT ![p] = res]

\* the thread goes back to the pool; nothing of the finished handler is kept
Return(p) ==
    /\ pc[p] = "finished"
    /\ pc' = [pc EXCEPT ![p] = "idle"]
    /\ loc' = [loc EXCEPT ![p] = InitLoc]
    /\ frames' = [frames EXCEPT ![p] = <<>>]
    /\ calls' = [calls EXCEPT ![p] = <<>>]
    /\ trace' = [trace EXCEPT ![p] = <<>>]
    /\ result' = [result EXCEPT ![p] = "none"]
    /\ StoreUnchanged

---------------------------------------------------------------------------
(* Store handlers of main.py that are one transaction.                     *)

\* POST /conversations
api_create_conversation(title, cap) ==
    /\ NoneFinished
    /\ nextConvId <= cap
    /\ conversations' = Extend(conversations, nextConvId, [title |-> title])
    /\ nextConvId' = nextConvId + 1
    /\ UNCHANGED <<messages, nextMsgId, edited, config>>
    /\ ThreadsUnchanged

\* PUT /config
api_upsert_config(model_name) ==
    /\ NoneFinished
    /\ config' = Some(model_name)
    /\ UNCHANGED <<conversations, messages, nextConvId, nextMsgId, edited>>
    /\ ThreadsUnchanged

\* PATCH /conversations/{id} with a title other than the stored one
api_update_conversation(c, title) ==
    /\ NoneFinished
    /\ c \in DOMAIN conversations
    /\ conversations[c].title # title
    /\ conversations' = [conversations EXCEPT ![c].title = title]
    /\ UNCHANGED <<messages, nextConvId, nextMsgId, edited, config>>
    /\ ThreadsUnchanged

\* DELETE /conversations/{id}
api_delete_conversation(c) ==
    /\ NoneFinished
    /\ c \in DOMAIN conversations
    /\ conversations' = Restrict(conversations, DOMAIN conversations \ {c})
    /\ messages' = delete_conversation_messages(messages, c)
    /\ edited' = edited \cup EditedBy(messages, messages')
    /\ UNCHANGED <<nextConvId, nextMsgId, config>>
    /\ ThreadsUnchanged

\* DELETE /messages/{id}
api_delete_message(id) ==
    /\ NoneFinished
    /\ id \in DOMAIN messages
    /\ messages' = delete_message(messages, id)
    /\ edited' = edited \cup EditedBy(messages, messages')
    /\ UNCHANGED <<conversations, nextConvId, nextMsgId, config>>
    /\ ThreadsUnchanged

\* PATCH /messages/{id} with MessageUpdate f (content, order_index, summary);
\* a rejected update leaves the table as it is
api_update_message(id, f) ==
    /\ NoneFinished
    /\ f # NoFields
    /\ messages' = update_message(messages, id, f).msgs
    /\ messages' # messages
    /\ edited' = edited \cup EditedBy(messages, messages')
    /\ UNCHANGED <<conversations, nextConvId, nextMsgId, config>>
    /\ ThreadsUnchanged

---------------------------------------------------------------------------
(* create_message, called by POST /conversations/{id}/messages and by      *)
(* POST /conversations/{id}/llm-reply.  The SELECT of _next_order_index    *)
(* runs before the connection has begun its write transaction (sqlite3     *)
(* opens it at the INSERT), so another connection can commit between the   *)
(* two statements; get_message afterwards is a transaction of its own.     *)

\* POST /conversations/{id}/messages: api_create_message calls create_message
api_create_message(p, c, content, cap) ==
    /\ MayInsert(cap)
    /\ Begin(p, "cm_read",
             [InitLoc EXCEPT !.kind = "create", !.conversation_id = c,
                             !.content = content])
    /\ StoreUnchanged

\* order_index = _next_order_index(conn, conversation_id)
cm_read(p) ==
    /\ At(p, "cm_read")
    /\ loc' = [loc EXCEPT ![p].order_index =
                   next_order_index(messages, loc[p].conversation_id)]
    /\ pc' = [pc EXCEPT ![p] = "cm_insert"]
    /\ UNCHANGED <<frames, calls, trace, result>>
    /\ StoreUnchanged

\* INSERT INTO messages ...; commit, or rollback and raise
cm_insert(p) ==
    /\ At(p, "cm_insert")
    /\ LET l == loc[p]
           out == InsertOutcome(conversations, messages, l.conversation_id,
                                l.order_index, l.parent_id)
       IN IF out = "ok"
          THEN /\ messages' = Extend(messages, nextMsgId,
                                     NewRow(l.conversation_id, l.content,
                                            l.order_index, l.parent_id))
               /\ nextMsgId' = nextMsgId + 1
               /\ loc' = [loc EXCEPT ![p].msg_id = nextMsgId]
               /\ pc' = [pc EXCEPT ![p] = "cm_fetch"]
               /\ trace' = [trace EXCEPT ![p] = Append(@, "insert")]
               /\ UNCHANGED <<result>>
          ELSE /\ Finish(p, out)
               /\ UNCHANGED <<messages, nextMsgId, loc, trace>>
    /\ UNCHANGED <<conversations, nextConvId, frames, calls, edited, config>>

\* return get_message(message_id)
cm_fetch(p) ==
    /\ At(p, "cm_fetch")
    /\ IF loc[p].msg_id \notin DOMAIN messages
       THEN /\ Finish(p, "ValueError")
            /\ UNCHANGED loc
       ELSE /\ loc' = [loc EXCEPT ![p].msg_order =
                           messages[loc[p].msg_id].order_index]
            /\ IF loc[p].kind = "create"
               THEN Finish(p, "ok")
               ELSE /\ pc' = [pc EXCEPT ![p] = "announce"]
                    /\ UNCHANGED result
    /\ UNCHANGED <<frames, calls, trace>>
    /\ StoreUnchanged

---------------------------------------------------------------------------
(* POST /conversations/{id}/llm-reply: api_conversation_llm_reply up to    *)
(* the StreamingResponse.                                                  *)

\* an admission that does not look at the configuration
reply_admit_without_config(p, c, content, parent, cap) ==
    /\ MayInsert(cap)
    /\ At(p, "idle")
    /\ loc' = [loc EXCEPT ![p] =
           [InitLoc EXCEPT !.kind = "reply", !.conversation_id = c,
                           !.content = content, !.parent_id = parent,
                           !.payload_parent_id = parent,
                           !.title = IF c \in DOMAIN conversations
                                     THEN conversations[c].title ELSE <<>>]]
    /\ IF c \notin DOMAIN conversations
       THEN Finish(p, "HTTP_404")
       ELSE /\ pc' = [pc EXCEPT ![p] = IF parent = NoId THEN "resolve"
                                       ELSE "cm_read"]
            /\ UNCHANGED result
    /\ UNCHANGED <<frames, calls, trace>>
    /\ StoreUnchanged

\* get_conversation, get_config, OpenAICompatibleLLM(...), payload.parent_id
reply_admit(p, c, content, parent, cap) ==
    /\ MayInsert(cap)
    /\ At(p, "idle")
    /\ loc' = [loc EXCEPT ![p] =
           [InitLoc EXCEPT !.kind = "reply", !.conversation_id = c,
                           !.content = content, !.parent_id = parent,
                           !.payload_parent_id = parent,
                           !.title = IF c \in DOMAIN conversations
                                     THEN conversations[c].title ELSE <<>>]]
    /\ IF c \notin DOMAIN conversations
       THEN Finish(p, "HTTP_404")
       ELSE IF IsNull(config)
       THEN Finish(p, "HTTP_400")
       ELSE IF Get(config) = <<>>
       THEN Finish(p, "ValueError_model_name")
       ELSE /\ pc' = [pc EXCEPT ![p] = IF parent = NoId THEN "resolve"
                                       ELSE "cm_read"]
            /\ UNCHANGED result
    /\ UNCHANGED <<frames, calls, trace>>
    /\ StoreUnchanged

\* a resolution that takes the first message of the conversation
reply_resolve_parent_first(p) ==
    /\ At(p, "resolve")
    /\ LET existing_messages ==
               get_messages_for_conversation(messages, loc[p].conversation_id)
       IN loc' = [loc EXCEPT ![p].parent_id =
                      IF existing_messages = <<>> THEN NoId
                      ELSE existing_messages[1]]
    /\ pc' = [pc EXCEPT ![p] = "cm_read"]
    /\ UNCHANGED <<frames, calls, trace, result>>
    /\ StoreUnchanged

\* parent_message_id = existing_messages[-1].id if existing_messages else None
reply_resolve_parent(p) ==
    /\ At(p, "resolve")
    /\ LET existing_messages ==
               get_messages_for_conversation(messages, loc[p].conversation_id)
       IN loc' = [loc EXCEPT ![p].parent_id =
                      IF existing_messages = <<>> THEN NoId
                      ELSE existing_messages[Len(existing_messages)]]
    /\ pc' = [pc EXCEPT ![p] = "cm_read"]
    /\ UNCHANGED <<frames, calls, trace, result>>
    /\ StoreUnchanged


---------------------------------------------------------------------------
(* _stream_llm_reply: the generator behind the StreamingResponse.  It is   *)
(* resumed each time the response wants its next frame; between two        *)
(* yields it runs store transactions and upstream calls.                   *)

\* fragments an upstream stream may deliver (client.py yields only non-empty ones)
Fragments == {<<"A">>, <<" ">>}

\* a completion longer than the title column allows
LongText == [i \in 1..(TitleMax + 1) |-> "x"]

\* choice.content values a completion may return
SummaryTexts == {<<"S">>, <<>>, LongText}

\* frames whose content is trimmed before it is written
Frame_trimmed(type, id, content) ==
    [type |-> type, message_id |-> id, content |-> strip(content)]

\* one NDJSON line of the response
Frame(type, id, content) == [type |-> type, message_id |-> id, content |-> content]

Emit(p, frame) ==
    /\ frames' = [frames EXCEPT ![p] = Append(@, frame)]
    /\ trace' = [trace EXCEPT ![p] = Append(@, frame.type)]

Turn(role, content) == [role |-> role, content |-> content]

\* the loop over history that fills llm_messages
RECURSIVE history_turns(_, _)
history_turns(msgs, path) ==
    IF path = <<>> THEN <<>>
    ELSE LET msg == msgs[Head(path)]
         IN <<Turn("user", msg.content)>>
            \o (IF ~IsNull(msg.assistant_reply) /\ Get(msg.assistant_reply) # <<>>
                THEN <<Turn("assistant", Get(msg.assistant_reply))>>
                ELSE <<>>)
            \o history_turns(msgs, Tail(path))

\* llm_messages of _stream_llm_reply for the node message_id
llm_messages(msgs, message_id) ==
    <<Turn("system", ASSISTANT_SYSTEM_PROMPT)>>
    \o history_turns(msgs, get_message_path_to_root(msgs, message_id).path)

\* _normalize_messages raises ValueError unless every entry has role and content
normalize_ok(prompt) ==
    \A k \in 1..Len(prompt) : prompt[k].role # "" /\ prompt[k].content # <<>>

\* first resume: yield the message_id frame
gen_announce(p) ==
    /\ At(p, "announce")
    /\ Emit(p, Frame("message_id", loc[p].msg_id, <<>>))
    /\ pc' = [pc EXCEPT ![p] = "branch"]
    /\ UNCHANGED <<loc, calls, result>>
    /\ StoreUnchanged

\* a detection that compares the content as typed, without lower()
takes_canned_branch_as_typed(content) ==
    \/ \E keyword \in model_keywords : Contains(strip(content), keyword)
    \/ judgment_match(strip(content))

\* if is_model_related_question(payload.content)
takes_canned_branch(content) == is_model_related_question(content)

gen_branch(p) ==
    /\ At(p, "branch")
    /\ IF takes_canned_branch(loc[p].content)
       THEN /\ pc' = [pc EXCEPT ![p] = "canned"]
            /\ loc' = [loc EXCEPT ![p].branch = "canned"]
       ELSE /\ pc' = [pc EXCEPT ![p] = "history"]
            /\ loc' = [loc EXCEPT ![p].branch = "upstream"]
    /\ UNCHANGED <<frames, calls, trace, result>>
    /\ StoreUnchanged

\* for char in response_text: yield delta; then yield done
gen_canned(p) ==
    /\ At(p, "canned")
    /\ IF loc[p].i < Len(MODEL_IDENTITY_RESPONSE)
       THEN /\ Emit(p, Frame("delta", NoId, <<MODEL_IDENTITY_RESPONSE[loc[p].i + 1]>>))
            /\ loc' = [loc EXCEPT ![p].i = @ + 1]
            /\ UNCHANGED pc
       ELSE /\ Emit(p, Frame("done", NoId, <<>>))
            /\ pc' = [pc EXCEPT ![p] = "canned_save"]
            /\ UNCHANGED loc
    /\ UNCHANGED <<calls, result>>
    /\ StoreUnchanged

\* user_message = update_message(user_message.id, **f): the UPDATE, then the
\* row read back; an exception ends the generator
SaveAndContinue(p, f, label, next_pc) ==
    LET u == update_message(messages, loc[p].msg_id, f)
    IN /\ messages' = u.msgs
       /\ UNCHANGED <<conversations, nextConvId, nextMsgId, frames, calls, edited, config>>
       /\ IF u.res = "ok"
          THEN /\ trace' = [trace EXCEPT ![p] = Append(@, label)]
               /\ loc' = [loc EXCEPT ![p].msg_order =
                              u.msgs[loc[p].msg_id].order_index]
               /\ IF next_pc = "idle"
                  THEN Finish(p, "done")
                  ELSE /\ pc' = [pc EXCEPT ![p] = next_pc]
                       /\ UNCHANGED result
          ELSE /\ Finish(p, u.res)
               /\ UNCHANGED <<loc, trace>>

\* a canned branch without its return: it goes on to the summary
gen_canned_save_then_summary(p) ==
    /\ At(p, "canned_save")
    /\ SaveAndContinue(p, [NoFields EXCEPT !.assistant_reply =
                                               Some(MODEL_IDENTITY_RESPONSE)],
                       "set_reply", "summary")

\* update_message(user_message.id, assistant_reply=response_text); return
gen_canned_save(p) ==
    /\ At(p, "canned_save")
    /\ SaveAndContinue(p, [NoFields EXCEPT !.assistant_reply =
                                               Some(MODEL_IDENTITY_RESPONSE)],
                       "set_reply", "idle")

\* history = get_message_path_to_root(...); llm_messages = ...;
\* llm_client.stream(llm_messages, ...) and its _build_payload
gen_history(p) ==
    /\ At(p, "history")
    /\ LET prompt == llm_messages(messages, loc[p].msg_id)
       IN /\ calls' = [calls EXCEPT ![p] =
                           Append(@, [fn |-> "stream", messages |-> prompt,
                                       returned |-> NULL])]
          /\ trace' = [trace EXCEPT ![p] = Append(@, "stream")]
          /\ IF normalize_ok(prompt)
             THEN /\ pc' = [pc EXCEPT ![p] = "stream"]
                  /\ UNCHANGED result
             ELSE Finish(p, "ValueError")
    /\ UNCHANGED <<loc, frames>>
    /\ StoreUnchanged

\* the upstream yields a fragment: assistant_content += delta; yield delta
gen_stream_delta(p, delta) ==
    /\ At(p, "stream")
    /\ Len(loc[p].received) < MaxFrags
    /\ loc' = [loc EXCEPT ![p].acc = @ \o delta,
                          ![p].received = Append(@, delta)]
    /\ Emit(p, Frame("delta", NoId, delta))
    /\ UNCHANGED <<pc, calls, result>>
    /\ StoreUnchanged

\* a generator that asks for the summary before it saves the reply
gen_stream_end_unsaved(p) ==
    /\ At(p, "stream")
    /\ frames' = [frames EXCEPT ![p] = Append(@, Frame("done", NoId, <<>>))]
    /\ trace' = [trace EXCEPT ![p] = @ \o <<"stream_end", "done">>]
    /\ pc' = [pc EXCEPT ![p] = "summary"]
    /\ UNCHANGED <<loc, calls, result>>
    /\ StoreUnchanged

\* the upstream stream ends: yield done
gen_stream_end(p) ==
    /\ At(p, "stream")
    /\ frames' = [frames EXCEPT ![p] = Append(@, Frame("done", NoId, <<>>))]
    /\ trace' = [trace EXCEPT ![p] = @ \o <<"stream_end", "done">>]
    /\ pc' = [pc EXCEPT ![p] = "save_reply"]
    /\ UNCHANGED <<loc, calls, result>>
    /\ StoreUnchanged

\* an except clause without its return: done follows the error frame
gen_stream_error_then_done(p) ==
    /\ At(p, "stream")
    /\ frames' = [frames EXCEPT ![p] = @ \o <<Frame("error", NoId, <<"LLMClientError">>),
                                               Frame("done", NoId, <<>>)>>]
    /\ trace' = [trace EXCEPT ![p] = @ \o <<"error", "done">>]
    /\ Finish(p, "upstream_error")
    /\ UNCHANGED <<loc, calls>>
    /\ StoreUnchanged

\* except LLMClientError: yield the error frame; return
gen_stream_error(p) ==
    /\ At(p, "stream")
    /\ Emit(p, Frame("error", NoId, <<"LLMClientError">>))
    /\ Finish(p, "upstream_error")
    /\ UNCHANGED <<loc, calls>>
    /\ StoreUnchanged

\* a non-success status: response.raise_for_status() raises HTTPStatusError
\* and its handler in _post_stream reads exc.response.text of a streamed
\* response whose body was never read, which raises httpx.ResponseNotRead,
\* not an LLMClientError: the generator ends with that exception
gen_stream_status_error(p) ==
    /\ At(p, "stream")
    /\ loc[p].received = <<>>
    /\ Finish(p, "ResponseNotRead")
    /\ UNCHANGED <<loc, frames, calls, trace>>
    /\ StoreUnchanged

\* assistant_content.strip(); update_message(..., assistant_reply=...)
gen_save_reply(p) ==
    /\ At(p, "save_reply")
    /\ SaveAndContinue(p, [NoFields EXCEPT !.assistant_reply = Some(strip(loc[p].acc))],
                       "set_reply", "summary")

\* summary_completion = llm_client.complete(summary_prompt, temperature=0.2):
\* out is NULL when it raises LLMClientError, else the content returned
gen_summary(p, out) ==
    /\ At(p, "summary")
    /\ calls' = [calls EXCEPT ![p] = Append(@,
           [fn |-> "complete",
            messages |-> <<Turn("system", SUMMARY_SYSTEM_PROMPT),
                           Turn("user", loc[p].content)>>,
            returned |-> out])]
    /\ trace' = [trace EXCEPT ![p] = Append(@, "complete")]
    /\ LET summary_text == IF IsNull(out) THEN NULL ELSE Some(strip(Get(out)))
       IN IF ~IsNull(summary_text) /\ Get(summary_text) # <<>>
          THEN /\ loc' = [loc EXCEPT ![p].summary_text =
                              Some(Truncate(Get(summary_text), TitleMax))]
               /\ pc' = [pc EXCEPT ![p] = "save_summary"]
          ELSE /\ loc' = [loc EXCEPT ![p].summary_text = summary_text]
               /\ pc' = [pc EXCEPT ![p] = "title"]
    /\ UNCHANGED <<frames, result>>
    /\ StoreUnchanged

\* the completion answers with a success status and a body the code does not
\* expect: response.json() raises JSONDecodeError on a body that is not JSON
\* (client.py 157, outside the try), and choice.content.strip() raises
\* AttributeError when message.content is null (main.py 394); neither is an
\* LLMClientError, so the generator ends with the exception
gen_summary_crash(p, exc) ==
    /\ At(p, "summary")
    /\ calls' = [calls EXCEPT ![p] = Append(@,
           [fn |-> "complete",
            messages |-> <<Turn("system", SUMMARY_SYSTEM_PROMPT),
                           Turn("user", loc[p].content)>>,
            returned |-> NULL])]
    /\ trace' = [trace EXCEPT ![p] = Append(@, "complete")]
    /\ Finish(p, exc)
    /\ UNCHANGED <<loc, frames>>
    /\ StoreUnchanged

\* update_message(user_message.id, summary=trimmed_summary)
gen_save_summary(p) ==
    /\ At(p, "save_summary")
    /\ SaveAndContinue(p, [NoFields EXCEPT !.summary = loc[p].summary_text],
                       "set_summary", "title")

\* title_candidate = summary_text or payload.content.strip()
title_candidate(summary_text, content) ==
    IF ~IsNull(summary_text) /\ Get(summary_text) # <<>>
    THEN Get(summary_text)
    ELSE strip(content)

\* should_update_title and user_message.order_index == 0, with the
\* Conversation read by api_conversation_llm_reply
should_write_title(l) ==
    /\ l.title \in {DEFAULT_TITLE, <<>>}
    /\ l.msg_order = 0
    /\ title_candidate(l.summary_text, l.content) # <<>>

\* a title update without its WHERE clause: every conversation gets the title
gen_title_everywhere(p) ==
    /\ At(p, "title")
    /\ LET l == loc[p]
       IN IF should_write_title(l)
          THEN /\ conversations' =
                      [c \in DOMAIN conversations |->
                           [conversations[c] EXCEPT !.title =
                                Truncate(title_candidate(l.summary_text, l.content),
                                         TitleMax)]]
               /\ trace' = [trace EXCEPT ![p] = Append(@, "set_title")]
          ELSE UNCHANGED <<conversations, trace>>
    /\ Finish(p, "done")
    /\ UNCHANGED <<messages, nextConvId, nextMsgId, loc, frames, calls, edited, config>>

\* update_conversation(conversation_id, title=title_candidate[:255]):
\* the UPDATE, then get_conversation, which raises when the row is gone
gen_title(p) ==
    /\ At(p, "title")
    /\ LET l == loc[p]
           c == l.conversation_id
       IN IF should_write_title(l)
          THEN IF c \in DOMAIN conversations
               THEN /\ conversations' = [conversations EXCEPT ![c].title =
                           Truncate(title_candidate(l.summary_text, l.content),
                                    TitleMax)]
                    /\ trace' = [trace EXCEPT ![p] = Append(@, "set_title")]
                    /\ Finish(p, "done")
               ELSE /\ Finish(p, "ValueError")
                    /\ UNCHANGED <<conversations, trace>>
          ELSE /\ Finish(p, "done")
               /\ UNCHANGED <<conversations, trace>>
    /\ UNCHANGED <<messages, nextConvId, nextMsgId, loc, frames, calls, edited, config>>


---------------------------------------------------------------------------
(* The client goes away: the StreamingResponse stops asking the generator  *)
(* for frames, and the code after the yield it is suspended at never runs. *)

\* the client is gone before the first frame was asked for
disconnect_before_body(p) ==
    /\ At(p, "announce")
    /\ Finish(p, "disconnected")
    /\ UNCHANGED <<loc, frames, calls, trace>>
    /\ StoreUnchanged

\* the client is gone when the generator hands over the done frame: the
\* response is cancelled and the code after `yield done` never runs
disconnect_after_done(p) ==
    /\ NoneFinished
    /\ pc[p] \in {"save_reply", "canned_save"}
    /\ Finish(p, "disconnected")
    /\ UNCHANGED <<loc, frames, calls, trace>>
    /\ StoreUnchanged

---------------------------------------------------------------------------
(* OpenAICompatibleLLM.stream: the generator of client.py, advanced one    *)
(* step at a time by its consumer.  A line of the response is a sequence   *)
(* of tokens: the prefix "data:", blanks, and the text that follows.       *)

\* longest response body, in lines
MaxLines == 3

\* JSON values: null, number, string, list, object (keys and their values)
JNull == [t |-> "null"]
JNumber == [t |-> "number"]
JString(s) == [t |-> "string", v |-> s]
JList(xs) == [t |-> "list", v |-> xs]
JObject(keys, f) == [t |-> "object", keys |-> keys, v |-> f]
JEmptyObject == JObject({}, <<>>)

\* a chat.completion.chunk whose first choice has delta.content = s
Chunk(s) ==
    JObject({"choices"}, [choices |-> JList(<<
        JObject({"delta"}, [delta |->
            JObject({"content"}, [content |-> JString(s)])])>>)])

\* texts a provider may send after "data:"
J_DONE == "[DONE]"
J_bad == "{oops"
J_null == "null"
J_object == "{}"
J_no_choice == "{\"choices\":[]}"
J_no_delta == "{\"choices\":[{}]}"
J_bad_choice == "{\"choices\":[1]}"
J_empty == "{\"choices\":[{\"delta\":{\"content\":\"\"}}]}"
J_A == "{\"choices\":[{\"delta\":{\"content\":\"A\"}}]}"
J_B == "{\"choices\":[{\"delta\":{\"content\":\"B\"}}]}"

DataTexts ==
    {J_DONE, J_bad, J_null, J_object, J_no_choice, J_no_delta, J_bad_choice,
     J_empty, J_A, J_B}

\* json.loads on the texts above; any other text is not JSON
json_loads(text) ==
    IF text = J_null THEN JNull
    ELSE IF text = J_object THEN JEmptyObject
    ELSE IF text = J_no_choice
    THEN JObject({"choices"}, [choices |-> JList(<<>>)])
    ELSE IF text = J_no_delta
    THEN JObject({"choices"}, [choices |-> JList(<<JEmptyObject>>)])
    ELSE IF text = J_bad_choice
    THEN JObject({"choices"}, [choices |-> JList(<<JNumber>>)])
    ELSE IF text = J_empty THEN Chunk("")
    ELSE IF text = J_A THEN Chunk("A")
    ELSE IF text = J_B THEN Chunk("B")
    ELSE [t |-> "JSONDecodeError"]

\* dict.get(key): None when the key is missing
dict_get(o, key) == IF key \in o.keys THEN o.v[key] ELSE JNull

\* bool(x) is False
Falsy(x) ==
    \/ x.t = "null"
    \/ x.t = "string" /\ x.v = ""
    \/ x.t = "list" /\ Len(x.v) = 0
    \/ x.t = "object" /\ x.keys = {}

\* lines of a response body
SseLines ==
    {<<>>, <<":", " ", "keep-alive">>, <<"data:">>, <<"data:", J_B>>}
    \cup {<<"data:", " ", text>> : text \in DataTexts}

\* the text of a line after the prefix: line[5:].strip()
DataOf(line) ==
    LET rest == strip(Tail(line))
    IN IF rest = <<>> THEN "" ELSE rest[1]

Continue == [act |-> "continue", v |-> ""]
Raise(exc) == [act |-> "raise", v |-> exc]

\* one turn of the loop of _iter_sse: continue, return, yield v or raise v
iter_sse_line(line) ==
    IF line = <<>> \/ line[1] # "data:" THEN Continue
    ELSE LET data == DataOf(line)
         IN IF data = J_DONE THEN [act |-> "return", v |-> ""]
            ELSE LET parsed == json_loads(data)
                 IN IF parsed.t = "JSONDecodeError" THEN Continue
                    ELSE IF parsed.t # "object" THEN Raise("AttributeError")
                    ELSE LET choices == dict_get(parsed, "choices")
                         IN IF Falsy(choices) THEN Continue
                            ELSE IF choices.t # "list" THEN Raise("TypeError")
                            ELSE LET first == choices.v[1]
                                 IN IF first.t # "object"
                                    THEN Raise("AttributeError")
                                    ELSE LET d == dict_get(first, "delta")
                                             delta == IF Falsy(d) THEN JEmptyObject
                                                      ELSE d
                                         IN IF delta.t # "object"
                                            THEN Raise("AttributeError")
                                            ELSE LET content_piece ==
                                                         dict_get(delta, "content")
                                                 IN IF Falsy(content_piece)
                                                    THEN Continue
                                                    ELSE [act |-> "yield",
                                                          v |-> content_piece.v]

\* llm_client.stream(...): the generator object is made, none of its code runs
stream_call(p) ==
    /\ Begin(p, "s_created", [InitLoc EXCEPT !.kind = "stream"])
    /\ StoreUnchanged

\* first advance: the request is sent and answered with a success status
post_stream_open(p) ==
    /\ At(p, "s_created")
    /\ pc' = [pc EXCEPT ![p] = "s_iter"]
    /\ UNCHANGED <<loc, frames, calls, trace, result>>
    /\ StoreUnchanged

\* first advance: httpx raises a transport error, an HTTPError
post_stream_connect_error(p) ==
    /\ At(p, "s_created")
    /\ Finish(p, "LLMClientError")
    /\ UNCHANGED <<loc, frames, calls, trace>>
    /\ StoreUnchanged

\* first advance: a non-success status; raise_for_status raises
\* HTTPStatusError and its handler reads exc.response.text of a streamed
\* response that was never read, which raises httpx.ResponseNotRead
post_stream_status_error(p) ==
    /\ At(p, "s_created")
    /\ Finish(p, "ResponseNotRead")
    /\ UNCHANGED <<loc, frames, calls, trace>>
    /\ StoreUnchanged

\* the consumer advances the generator and the server has sent one more
\* line: one turn of the loop of _iter_sse; lines keeps the lines read
iter_sse_next(p, line) ==
    /\ At(p, "s_iter")
    /\ Len(loc[p].lines) < MaxLines
    /\ LET l == loc[p]
           turn == iter_sse_line(line)
       IN /\ loc' = [loc EXCEPT ![p].i = l.i + 1,
                                ![p].lines = Append(l.lines, line),
                                ![p].received =
                                    IF turn.act = "yield"
                                    THEN Append(l.received, turn.v)
                                    ELSE l.received]
          /\ IF turn.act = "return" THEN Finish(p, "ok")
             ELSE IF turn.act = "raise" THEN Finish(p, turn.v)
             ELSE UNCHANGED <<pc, result>>
    /\ UNCHANGED <<frames, calls, trace>>
    /\ StoreUnchanged

\* the consumer advances the generator and the body has ended: iter_lines
\* is exhausted and the generator returns
iter_sse_end(p) ==
    /\ At(p, "s_iter")
    /\ Finish(p, "ok")
    /\ UNCHANGED <<loc, frames, calls, trace>>
    /\ StoreUnchanged

\* the connection breaks while the next line is read: iter_lines raises an
\* httpx.HTTPError, which _post_stream turns into LLMClientError
iter_sse_read_error(p) ==
    /\ At(p, "s_iter")
    /\ Finish(p, "LLMClientError")
    /\ UNCHANGED <<loc, frames, calls, trace>>
    /\ StoreUnchanged

\* the threads that consume a stream
StreamThreads == {1}

\* One consumer calls stream and advances it to its end, over any response.
NextStream ==
    \/ \E p \in Threads : Return(p)
    \/ \E p \in StreamThreads : stream_call(p)
    \/ \E p \in StreamThreads : post_stream_open(p)
    \/ \E p \in StreamThreads : post_stream_connect_error(p)
    \/ \E p \in StreamThreads : post_stream_status_error(p)
    \/ \E p \in StreamThreads : \E line \in SseLines : iter_sse_next(p, line)
    \/ \E p \in StreamThreads : iter_sse_end(p)
    \/ \E p \in StreamThreads : iter_sse_read_error(p)

SpecStream == Init /\ [][NextStream]_vars

---------------------------------------------------------------------------
(* The program: request threads run the handlers concurrently.             *)

\* the handlers that are a single transaction, with the titles of the POST
\* /conversations payloads and the PATCH /messages payloads F
StoreOps(titles, F, cap) ==
    \/ \E title \in titles : api_create_conversation(title, cap)
    \/ \E c \in ConvIds : api_delete_conversation(c)
    \/ \E id \in MsgIds : api_delete_message(id)
    \/ \E id \in MsgIds : \E f \in F : api_update_message(id, f)

\* POST .../messages on the threads T with the contents C, and the steps of
\* create_message on whichever thread called it
CreateSteps(T, C, cap) ==
    \/ \E p \in T : \E c \in ConvIds : \E content \in C :
           api_create_message(p, c, content, cap)
    \/ \E p \in Threads : cm_read(p)
    \/ \E p \in Threads : cm_insert(p)
    \/ \E p \in Threads : cm_fetch(p)

\* api_conversation_llm_reply on the threads T with the contents C
AdmitSteps(T, C, cap) ==
    \/ \E p \in T : \E c \in ConvIds : \E content \in C :
           \E parent \in {NoId} \cup MsgIds :
               reply_admit(p, c, content, parent, cap)
    \/ \E p \in T : reply_resolve_parent(p)

\* _stream_llm_reply on the threads T
GenSteps(T) ==
    \/ \E p \in T : gen_announce(p)
    \/ \E p \in T : gen_branch(p)
    \/ \E p \in T : gen_canned(p)
    \/ \E p \in T : gen_canned_save(p)
    \/ \E p \in T : gen_history(p)
    \/ \E p \in T : \E delta \in Fragments : gen_stream_delta(p, delta)
    \/ \E p \in T : gen_stream_end(p)
    \/ \E p \in T : gen_stream_error(p)
    \/ \E p \in T : gen_stream_status_error(p)
    \/ \E p \in T : gen_save_reply(p)
    \/ \E p \in T : \E out \in {NULL} \cup {Some(t) : t \in SummaryTexts} :
           gen_summary(p, out)
    \/ \E p \in T : \E exc \in {"JSONDecodeError", "AttributeError"} :
           gen_summary_crash(p, exc)
    \/ \E p \in T : gen_save_summary(p)
    \/ \E p \in T : gen_title(p)

\* MessageUpdate payloads that set order_index (ge = 0)
OrderPayloads == {[NoFields EXCEPT !.order_index = Some(n)] : n \in 0..MaxOrder}

\* MessageUpdate payloads that set content
ContentPayloads == {[NoFields EXCEPT !.content = Some(<<>>)]}

\* the threads that serve llm-reply requests in Spec
ReplyThreads == {1}

\* The reply pipeline: one thread serves llm-reply requests one after the
\* other while every thread serves create requests and the single-transaction
\* handlers run at any moment.
Next ==
    \/ \E p \in Threads : Return(p)
    \/ StoreOps(CreateTitles, ContentPayloads, ReplyMaxConvs)
    \/ CreateSteps(Threads, CreateContents, ReplyMaxMsgs)
    \/ AdmitSteps(ReplyThreads, ReplyContents, ReplyMaxMsgs)
    \/ GenSteps(ReplyThreads)

Spec == Init /\ [][Next]_vars

\* The store under concurrent writers: every thread serves create and
\* llm-reply requests up to the insertion of the node (the client of an
\* llm-reply then goes away), PATCH requests renumber messages.
NextStore ==
    \/ \E p \in Threads : Return(p)
    \/ StoreOps({DEFAULT_TITLE}, OrderPayloads, MaxConvs)
    \/ CreateSteps(Threads, {T_hi}, MaxMsgs)
    \/ AdmitSteps(Threads, {T_hi}, MaxMsgs)
    \/ \E p \in Threads : disconnect_before_body(p)

SpecStore == Init /\ [][NextStore]_vars

\* The title of a conversation: one thread serves llm-reply and create
\* requests one after the other while PATCH /conversations requests change
\* the title at any moment.
NextTitle ==
    \/ \E p \in Threads : Return(p)
    \/ api_create_conversation(DEFAULT_TITLE, ReplyMaxConvs)
    \/ \E c \in ConvIds : \E title \in PatchTitles : api_update_conversation(c, title)
    \/ CreateSteps(ReplyThreads, {T_hi}, ReplyMaxMsgs)
    \/ AdmitSteps(ReplyThreads, TitleContents, ReplyMaxMsgs)
    \/ GenSteps(ReplyThreads)

SpecTitle == Init /\ [][NextTitle]_vars

\* Admission without a stored configuration: the application serves requests
\* although its lifespan never ran, PUT /config stores a configuration at any
\* moment, every thread serves create and llm-reply requests up to the
\* insertion of the node.
NextAdmit ==
    \/ \E p \in Threads : Return(p)
    \/ api_create_conversation(DEFAULT_TITLE, ReplyMaxConvs)
    \/ \E model_name \in ConfigModels : api_upsert_config(model_name)
    \/ CreateSteps(Threads, {T_hi}, ReplyMaxMsgs)
    \/ AdmitSteps(Threads, {T_hi}, ReplyMaxMsgs)
    \/ \E p \in Threads : disconnect_before_body(p)

SpecAdmit == InitImported /\ [][NextAdmit]_vars

\* contents of the requests of SpecLive: one for each branch
LiveContents == {T_hi, T_who}

\* the steps of handlers that are running: a started handler goes on to its
\* end unless its client goes away, and its thread returns to the pool
HandlerSteps ==
    \/ \E p \in Threads : Return(p)
    \/ \E p \in Threads : cm_read(p)
    \/ \E p \in Threads : cm_insert(p)
    \/ \E p \in Threads : cm_fetch(p)
    \/ \E p \in ReplyThreads : reply_resolve_parent(p)
    \/ GenSteps(ReplyThreads)

\* Clients that go away: one thread serves llm-reply and create requests one
\* after the other, and the client of an llm-reply may be gone when the done
\* frame is handed over.  A handler that can take a step eventually takes one.
NextLive ==
    \/ \E p \in Threads : Return(p)
    \/ api_create_conversation(DEFAULT_TITLE, ReplyMaxConvs)
    \/ CreateSteps(ReplyThreads, {T_hi}, ReplyMaxMsgs)
    \/ AdmitSteps(ReplyThreads, LiveContents, ReplyMaxMsgs)
    \/ GenSteps(ReplyThreads)
    \/ \E p \in ReplyThreads : disconnect_after_done(p)

SpecLive == Init /\ [][NextLive]_vars /\ WF_vars(HandlerSteps)

\* Concurrent reply requests in any of the conversations: thread 1 serves
\* requests that go upstream, thread 2 requests about the model's identity.
NextFrame ==
    \/ \E p \in Threads : Return(p)
    \/ api_create_conversation(DEFAULT_TITLE, MaxConvs)
    \/ AdmitSteps({1}, {T_hi}, ReplyMaxMsgs)
    \/ AdmitSteps({2}, {T_who}, ReplyMaxMsgs)
    \/ \E p \in Threads : cm_read(p)
    \/ \E p \in Threads : cm_insert(p)
    \/ \E p \in Threads : cm_fetch(p)
    \/ GenSteps(Threads)

SpecFrame == Init /\ [][NextFrame]_vars

---------------------------------------------------------------------------
(* The store called directly: one caller issues the operations of crud.py  *)
(* one after the other, update_message with parent_id included (no request *)
(* handler passes that argument).                                          *)

\* update_message(id, parent_id=n)
ParentPayloads == {[NoFields EXCEPT !.parent_id = Some(n)] : n \in MsgIds}

\* update_message(id, assistant_reply=text)
AssistantPayloads ==
    {[NoFields EXCEPT !.assistant_reply = Some(t)] : t \in {<<"A">>, <<"B">>}}

\* create_message(conversation_id, content, parent_id=parent) run to its end
call_create_message(c, content, parent) ==
    /\ NoneFinished
    /\ nextMsgId <= MaxMsgs
    /\ LET idx == next_order_index(messages, c)
       IN /\ InsertOutcome(conversations, messages, c, idx, parent) = "ok"
          /\ messages' = Extend(messages, nextMsgId, NewRow(c, content, idx, parent))
    /\ nextMsgId' = nextMsgId + 1
    /\ UNCHANGED <<conversations, nextConvId, edited, config>>
    /\ ThreadsUnchanged

\* update_message(id, **f) run to its end
call_update_message(id, f) ==
    /\ NoneFinished
    /\ update_message(messages, id, f).res = "ok"
    /\ messages' = update_message(messages, id, f).msgs
    /\ messages' # messages
    /\ edited' = edited \cup EditedBy(messages, messages')
    /\ UNCHANGED <<conversations, nextConvId, nextMsgId, config>>
    /\ ThreadsUnchanged

NextCrud ==
    \/ api_create_conversation(DEFAULT_TITLE, MaxConvs)
    \/ \E c \in ConvIds : \E parent \in {NoId} \cup MsgIds :
           call_create_message(c, T_hi, parent)
    \/ \E id \in MsgIds :
           \E f \in ParentPayloads \cup OrderPayloads \cup AssistantPayloads :
               call_update_message(id, f)
    \/ \E id \in MsgIds : api_delete_message(id)

SpecCrud == Init /\ [][NextCrud]_vars

---------------------------------------------------------------------------
(* GET /messages/{id}/path-to-root step by step: every turn of the loop of *)
(* get_message_path_to_root reads one row in a transaction of its own, and *)
(* the other operations of crud.py run between two turns.                  *)

\* longest path a walk collects before the model stops following it
MaxPath == 4

\* the handler calls get_message_path_to_root(message_id): path = [],
\* current_id = message_id
api_get_message_path_to_root(p, message_id) ==
    /\ Begin(p, "path_loop", [InitLoc EXCEPT !.kind = "path",
                                             !.msg_id = message_id,
                                             !.parent_id = message_id])
    /\ StoreUnchanged

\* a loop that lets the ValueError of a missing row out of the function; the
\* handler answers 404
path_loop_raising(p) ==
    /\ At(p, "path_loop")
    /\ LET l == loc[p]
           current_id == l.parent_id
       IN IF current_id = NoId
          THEN /\ loc' = [loc EXCEPT ![p].received = Reverse(l.acc)]
               /\ Finish(p, "ok")
          ELSE IF current_id \notin DOMAIN messages
          THEN /\ Finish(p, "HTTP_404")
               /\ UNCHANGED loc
          ELSE /\ Len(l.acc) < MaxPath
               /\ loc' = [loc EXCEPT ![p].acc = Append(l.acc, current_id),
                                     ![p].parent_id =
                                         messages[current_id].parent_id]
               /\ UNCHANGED <<pc, result>>
    /\ UNCHANGED <<frames, calls, trace>>
    /\ StoreUnchanged

\* one test of the loop condition and one turn of the loop: get_message of
\* current_id; a missing row raises ValueError, which breaks the loop; the
\* function returns list(reversed(path)) and the handler answers 200
path_loop(p) ==
    /\ At(p, "path_loop")
    /\ LET l == loc[p]
           current_id == l.parent_id
       IN IF current_id = NoId \/ current_id \notin DOMAIN messages
          THEN /\ loc' = [loc EXCEPT ![p].received = Reverse(l.acc)]
               /\ Finish(p, "ok")
          ELSE /\ Len(l.acc) < MaxPath
               /\ loc' = [loc EXCEPT ![p].acc = Append(l.acc, current_id),
                                     ![p].parent_id =
                                         messages[current_id].parent_id]
               /\ UNCHANGED <<pc, result>>
    /\ UNCHANGED <<frames, calls, trace>>
    /\ StoreUnchanged

\* the threads that walk
PathThreads == {1}

\* One walk at a time, among creations, changes of parent_id and deletions.
NextPath ==
    \/ \E p \in Threads : Return(p)
    \/ api_create_conversation(DEFAULT_TITLE, ReplyMaxConvs)
    \/ \E c \in ConvIds : \E parent \in {NoId} \cup MsgIds :
           call_create_message(c, T_hi, parent)
    \/ \E id \in MsgIds : \E f \in ParentPayloads : call_update_message(id, f)
    \/ \E id \in MsgIds : api_delete_message(id)
    \/ \E p \in PathThreads : \E id \in MsgIds : api_get_message_path_to_root(p, id)
    \/ \E p \in PathThreads : path_loop(p)

SpecPath == Init /\ [][NextPath]_vars

---------------------------------------------------------------------------
(* PATCH /messages/{id} step by step: api_update_message tests the payload, *)
(* update_message runs the UPDATE in one transaction and reads the row     *)
(* back with get_message in another.                                       *)

\* MessageUpdate payloads: no field, one field, two fields
PatchPayloads ==
    {NoFields} \cup OrderPayloads
    \cup {[NoFields EXCEPT !.content = Some(t)] : t \in {T_hi, <<>>}}
    \cup {[NoFields EXCEPT !.summary = Some(<<"S">>)]}
    \cup {[NoFields EXCEPT !.content = Some(T_hi), !.summary = Some(<<"S">>)]}

\* a handler that passes an empty payload on to update_message
patch_message_untested(p, id, f) ==
    /\ Begin(p, "um_update",
             [InitLoc EXCEPT !.kind = "patch", !.msg_id = id, !.fields = f])
    /\ StoreUnchanged

\* api_update_message: 400 when the payload has no field
patch_message(p, id, f) ==
    /\ At(p, "idle")
    /\ loc' = [loc EXCEPT ![p] =
           [InitLoc EXCEPT !.kind = "patch", !.msg_id = id, !.fields = f]]
    /\ IF f = NoFields
       THEN Finish(p, "HTTP_400")
       ELSE /\ pc' = [pc EXCEPT ![p] = "um_update"]
            /\ UNCHANGED result
    /\ UNCHANGED <<frames, calls, trace>>
    /\ StoreUnchanged

\* update_message up to the commit of the UPDATE: an UPDATE that matches no
\* row is not an error; a ValueError (no field) is reported as 404 by the
\* handler
um_update(p) ==
    /\ At(p, "um_update")
    /\ LET u == update_message(messages, loc[p].msg_id, loc[p].fields)
       IN IF loc[p].fields = NoFields
          THEN /\ Finish(p, "HTTP_404")
               /\ UNCHANGED messages
          ELSE IF u.res \in {"ok", "ValueError"}
          THEN /\ messages' = u.msgs
               /\ pc' = [pc EXCEPT ![p] = "um_fetch"]
               /\ UNCHANGED result
          ELSE /\ Finish(p, u.res)
               /\ UNCHANGED messages
    /\ edited' = edited \cup EditedBy(messages, messages')
    /\ UNCHANGED <<conversations, nextConvId, nextMsgId, config, loc, frames,
                   calls, trace>>

\* return get_message(message_id); its ValueError is reported as 404
um_fetch(p) ==
    /\ At(p, "um_fetch")
    /\ Finish(p, IF loc[p].msg_id \in DOMAIN messages THEN "ok" ELSE "HTTP_404")
    /\ UNCHANGED <<loc, frames, calls, trace>>
    /\ StoreUnchanged

\* the threads that serve PATCH /messages requests
PatchThreads == {1}

\* PATCH /messages requests one after the other while messages are created
\* and deleted at any moment
NextPatch ==
    \/ \E p \in Threads : Return(p)
    \/ api_create_conversation(DEFAULT_TITLE, ReplyMaxConvs)
    \/ \E c \in ConvIds : call_create_message(c, T_hi, NoId)
    \/ \E id \in MsgIds : api_delete_message(id)
    \/ \E p \in PatchThreads : \E id \in MsgIds : \E f \in PatchPayloads :
           patch_message(p, id, f)
    \/ \E p \in PatchThreads : um_update(p)
    \/ \E p \in PatchThreads : um_fetch(p)

SpecPatch == Init /\ [][NextPatch]_vars

---------------------------------------------------------------------------
(* Properties of the store.                                                *)

\* the order_index values of conversation c
OrderIndexes(c) == {messages[m].order_index : m \in ConvMsgs(messages, c)}

\* C1: no two messages of the same conversation have the same order_index,
\* whatever createMessage, updateMessage, deleteMessage and
\* deleteConversation calls ran, concurrent creations included.
C1_UniqueOrderIndex ==
    \A m1 \in DOMAIN messages : \A m2 \in DOMAIN messages :
        (m1 # m2 /\ messages[m1].conversation_id = messages[m2].conversation_id)
            => messages[m1].order_index # messages[m2].order_index

\* C1 witness: a conversation holds two messages and the unique index has
\* just rejected a concurrent creation that computed a taken order_index.
C1_Witness ==
    /\ \E c \in DOMAIN conversations : Cardinality(ConvMsgs(messages, c)) >= 2
    /\ \E p \in Threads : result[p] = "IntegrityError_UNIQUE"

\* C2 (as claimed): createMessage reads the maximum and inserts as one atomic
\* unit, so no createMessage call on an existing conversation ends with an
\* order_index collision.
C2_NoCreateCollides ==
    \A p \in Threads :
        (pc[p] = "finished" /\ loc[p].conversation_id \in DOMAIN conversations)
            => result[p] # "IntegrityError_UNIQUE"

\* C3 (as claimed): in every reachable state the order_index values of a
\* conversation are exactly 0, 1, ..., n-1 for its n messages.
C3_GapFreeAlways ==
    \A c \in DOMAIN conversations :
        OrderIndexes(c) = 0..(Cardinality(ConvMsgs(messages, c)) - 1)

\* C3 (amended): order_index values are never negative, and a conversation
\* none of whose messages was deleted or renumbered holds exactly the values
\* 0, 1, ..., n-1 for its n messages: a creation stores the maximum plus 1,
\* or 0 in an empty conversation.
C3_GapFreeWhileOnlyCreated ==
    /\ \A m \in DOMAIN messages : messages[m].order_index >= 0
    /\ \A c \in DOMAIN conversations \ edited :
           OrderIndexes(c) = 0..(Cardinality(ConvMsgs(messages, c)) - 1)

\* C3 witness: a conversation with only creations holds three messages,
\* numbered 0, 1 and 2.
C3_Witness ==
    \E c \in DOMAIN conversations \ edited : OrderIndexes(c) = {0, 1, 2}

\* the proper ancestors of m: the least set closed under parent_id
RECURSIVE AncestorsFrom(_)
AncestorsFrom(S) ==
    LET T == S \cup ({messages[x].parent_id : x \in S \cap DOMAIN messages}
                      \ {NoId})
    IN IF T = S THEN S ELSE AncestorsFrom(T)

\* the depth of m in its tree: how many proper ancestors it has
Depth(m) == Cardinality(AncestorsFrom({messages[m].parent_id} \ {NoId}))

C11_ParentChainAcyclic ==
    \A m \in DOMAIN messages :
        /\ m \notin AncestorsFrom({messages[m].parent_id} \ {NoId})
        /\ get_message_path_to_root(messages, m).returns

\* C12 (as claimed): every message whose parent_id is set has its parent in
\* its own conversation; a reply request that names a parent of another
\* conversation stores no node under that parent.
C12_ParentInSameConversation ==
    \A m \in DOMAIN messages :
        messages[m].parent_id # NoId
            => /\ messages[m].parent_id \in DOMAIN messages
               /\ messages[messages[m].parent_id].conversation_id
                      = messages[m].conversation_id

---------------------------------------------------------------------------
(* Properties of the reply pipeline.  A thread keeps the frames, upstream  *)
(* calls and trace of its request until it returns to the pool, so a       *)
(* predicate over them speaks of the whole request so far.  The response   *)
(* is read to its end by the caller.                                       *)

\* thread p serves a reply request
Replying(p) == loc[p].kind = "reply"

\* the types of the frames written by p, in order
FrameTypes(p) == [i \in 1..Len(frames[p]) |-> frames[p][i].type]

IsDelta(f) == f.type = "delta"

\* the contents of the delta frames written by p, in order
DeltaContents(p) ==
    LET d == SelectSeq(frames[p], IsDelta)
    IN [i \in 1..Len(d) |-> d[i].content]

RECURSIVE Concat(_)
Concat(ss) == IF ss = <<>> THEN <<>> ELSE Head(ss) \o Concat(Tail(ss))

\* p did `a` in this request
Did(p, a) == \E i \in 1..Len(trace[p]) : trace[p][i] = a

\* p did `a` before position i of its trace
DidBefore(p, a, i) == \E j \in 1..(i - 1) : trace[p][j] = a

\* every `a` of p's trace has a `b` before it
Follows(p, a, b) ==
    \A i \in 1..Len(trace[p]) : trace[p][i] = a => DidBefore(p, b, i)

\* the node of p's request is still stored
NodeStored(p) == loc[p].msg_id \in DOMAIN messages

\* message_id first, then deltas, then one terminal frame, nothing after it
WellFormed(fs, id) ==
    /\ Len(fs) >= 2
    /\ fs[1].type = "message_id"
    /\ fs[1].message_id = id
    /\ \A i \in 2..(Len(fs) - 1) : fs[i].type = "delta"
    /\ fs[Len(fs)].type \in {"done", "error"}

\* C4 (as claimed): every reply response that started streaming, once it has
\* ended, is one message_id frame naming the request's node, then delta
\* frames, then exactly one terminal frame (done or error) and nothing more,
\* whatever the upstream does and whatever prompt the ancestors give.
C4_FramesWellFormed ==
    \A p \in Threads :
        (Replying(p) /\ pc[p] = "finished" /\ frames[p] # <<>>)
            => WellFormed(frames[p], loc[p].msg_id)

\* C5: in the upstream branch the contents of the delta frames are the
\* fragments the upstream produced, one frame per fragment in the same order;
\* and once the reply is saved, the assistant_reply of the request's node (as
\* long as the node is stored) is the concatenation of those fragments with
\* leading and trailing whitespace removed.
C5_RelayInOrder ==
    \A p \in Threads :
        (Replying(p) /\ loc[p].branch = "upstream")
            => /\ DeltaContents(p) = loc[p].received
               /\ (Did(p, "set_reply") /\ NodeStored(p))
                      => messages[loc[p].msg_id].assistant_reply
                             = Some(strip(Concat(loc[p].received)))

\* C5 witness: a request ended well after relaying two fragments whose
\* concatenation has whitespace to trim, and its node holds the trimmed text.
C5_Witness ==
    \E p \in Threads :
        /\ result[p] = "done"
        /\ loc[p].branch = "upstream"
        /\ Len(loc[p].received) = 2
        /\ strip(Concat(loc[p].received)) # Concat(loc[p].received)
        /\ strip(Concat(loc[p].received)) # <<>>
        /\ NodeStored(p)
        /\ messages[loc[p].msg_id].assistant_reply
               = Some(strip(Concat(loc[p].received)))

C7_SideEffectOrder ==
    \A p \in Threads :
        Replying(p) =>
            /\ \A t \in {"message_id", "delta", "done", "error"} :
                   Follows(p, t, "insert")
            /\ Follows(p, "stream", "message_id")
            /\ Follows(p, "set_reply", "done")
            /\ loc[p].branch = "upstream" => Follows(p, "set_reply", "stream_end")
            /\ Follows(p, "complete", "set_reply")
            /\ Follows(p, "set_summary", "complete")
            /\ Follows(p, "set_title", "complete")
            /\ \A i \in 1..Len(trace[p]) :
                   trace[p][i] = "set_summary" => ~DidBefore(p, "set_title", i)

\* C7 witness: a request that saved its reply, saved a summary and wrote the
\* title has ended.
C7_Witness ==
    \E p \in Threads :
        /\ result[p] = "done"
        /\ Did(p, "set_reply")
        /\ Did(p, "set_summary")
        /\ Did(p, "set_title")

\* the frames of the canned branch
CannedFrames(id) ==
    <<Frame("message_id", id, <<>>)>>
    \o [i \in 1..Len(MODEL_IDENTITY_RESPONSE) |->
            Frame("delta", NoId, <<MODEL_IDENTITY_RESPONSE[i]>>)]
    \o <<Frame("done", NoId, <<>>)>>

\* C8: in the canned branch and after an upstream failure the request makes
\* no complete call, sets no summary and leaves the conversation title as it
\* was; the canned branch writes the identity text one character per delta
\* frame, then done, and saves exactly that text as assistant_reply.
C8_NoSummaryNoTitle ==
    \A p \in Threads :
        (Replying(p) /\ (loc[p].branch = "canned" \/ result[p] = "upstream_error"))
            => /\ \A i \in 1..Len(calls[p]) : calls[p][i].fn # "complete"
               /\ ~Did(p, "complete")
               /\ ~Did(p, "set_summary")
               /\ ~Did(p, "set_title")
               /\ NodeStored(p) => IsNull(messages[loc[p].msg_id].summary)
               /\ loc[p].conversation_id \in DOMAIN conversations
                      => conversations[loc[p].conversation_id].title = loc[p].title
               /\ (loc[p].branch = "canned" /\ Did(p, "done"))
                      => frames[p] = CannedFrames(loc[p].msg_id)
               /\ (loc[p].branch = "canned" /\ Did(p, "set_reply") /\ NodeStored(p))
                      => messages[loc[p].msg_id].assistant_reply
                             = Some(MODEL_IDENTITY_RESPONSE)

\* C8 witness: a canned request on a conversation with the default title has
\* ended after saving the identity text.
C8_Witness ==
    \E p \in Threads :
        /\ result[p] = "done"
        /\ loc[p].branch = "canned"
        /\ loc[p].title = DEFAULT_TITLE
        /\ loc[p].msg_order = 0
        /\ NodeStored(p)
        /\ messages[loc[p].msg_id].assistant_reply = Some(MODEL_IDENTITY_RESPONSE)

\* C9: a request takes the canned branch exactly when its content matches
\* the detection rules; a matching content makes no call on the upstream
\* client, and a non-matching one has stream called as the first call.
C9_CannedIffMatch ==
    \A p \in Threads :
        Replying(p) =>
            /\ loc[p].branch = "canned"
                   => is_model_related_question(loc[p].content)
            /\ loc[p].branch = "upstream"
                   => ~is_model_related_question(loc[p].content)
            /\ is_model_related_question(loc[p].content) => calls[p] = <<>>
            /\ (loc[p].branch = "upstream" /\ pc[p] # "history")
                   => /\ calls[p] # <<>>
                      /\ calls[p][1].fn = "stream"

\* C9 witness: a content that matches a keyword only once lowered took the
\* canned branch and ended without a call on the upstream client.
C9_Witness ==
    \E p \in Threads :
        /\ result[p] = "done"
        /\ loc[p].content = T_who
        /\ loc[p].branch = "canned"
        /\ calls[p] = <<>>


\* what the summary completion of p's request returned: NULL when the call
\* raised, else the content of the first choice
SummaryReturned(p) == calls[p][Len(calls[p])].returned

\* p's request made the first message of a conversation that had the default
\* title when the request was admitted, its upstream stream succeeded, it went
\* on to the summary call, and it has ended
FirstMessageEnded(p) ==
    /\ Replying(p)
    /\ pc[p] = "finished"
    /\ loc[p].branch = "upstream"
    /\ loc[p].title = DEFAULT_TITLE
    /\ loc[p].msg_order = 0
    /\ Did(p, "complete")

\* the same, and the request ran to its end without an exception
FirstMessageDone(p) == FirstMessageEnded(p) /\ result[p] = "done"

\* the title of the conversation of p's request
TitleOf(p) == conversations[loc[p].conversation_id].title

\* C13: for the first message (order_index 0) of a conversation with the
\* default title whose upstream stream succeeded, a failed summary call makes
\* the title the trimmed content of the request, cut to 255 characters (stated
\* for a content that is not empty once trimmed).
C13_FallbackAlwaysWritten ==
    \A p \in Threads :
        (/\ FirstMessageEnded(p)
         /\ IsNull(SummaryReturned(p))
         /\ strip(loc[p].content) # <<>>)
            => TitleOf(p) = Truncate(strip(loc[p].content), TitleMax)

\* C13 witness: the summary call did not return, the request ended with the
\* exception, and the conversation still has the default title.
C13_Witness ==
    \E p \in Threads :
        /\ FirstMessageEnded(p)
        /\ IsNull(SummaryReturned(p))
        /\ loc[p].content = T_padded
        /\ result[p] \in {"JSONDecodeError", "AttributeError"}
        /\ TitleOf(p) = DEFAULT_TITLE

\* C13, the cases the code implements: when the request runs to its end, a
\* summary with a non-empty trimmed text S makes the title S cut to 255
\* characters; a summary call that raised an upstream error, or a summary that
\* is empty once trimmed, makes the title the trimmed content cut to 255
\* characters when that is non-empty, and no title is written when it is empty.
C13_TitleFromSummaryOrContent ==
    \A p \in Threads :
        FirstMessageDone(p) =>
            LET r == SummaryReturned(p)
                S == IF IsNull(r) THEN <<>> ELSE strip(Get(r))
                trimmed == strip(loc[p].content)
            IN /\ S # <<>> => TitleOf(p) = Truncate(S, TitleMax)
               /\ (S = <<>> /\ trimmed # <<>>)
                      => TitleOf(p) = Truncate(trimmed, TitleMax)
               /\ (S = <<>> /\ trimmed = <<>>) => ~Did(p, "set_title")

\* C13, the fallback taken: the summary call raised an upstream error and the
\* title is the content of the request without its surrounding blanks.
C13_FallbackTaken ==
    \E p \in Threads :
        /\ FirstMessageDone(p)
        /\ IsNull(SummaryReturned(p))
        /\ loc[p].content = T_padded
        /\ TitleOf(p) = T_hi

\* C14: the request writes the title only when the title stored at that
\* moment is still the default or empty and its message has order_index 0, so
\* a title changed since the request was admitted is never overwritten.
C14_WritesOnlyOverPlaceholder ==
    [][\A p \in Threads :
          LET c == loc[p].conversation_id
          IN (/\ pc[p] = "title"
              /\ pc'[p] = "finished"
              /\ c \in DOMAIN conversations
              /\ conversations'[c].title # conversations[c].title)
                 => /\ conversations[c].title \in {DEFAULT_TITLE, <<>>}
                    /\ loc[p].msg_order = 0]_vars

\* C15: a failed summary call never fails the request: the request runs to
\* its end (title derivation included) without an error frame, the stored
\* assistant_reply is kept and the summary of the message stays absent.
C15_SummaryFailureIsSilent ==
    \A p \in Threads :
        (/\ Replying(p)
         /\ pc[p] = "finished"
         /\ Did(p, "complete")
         /\ IsNull(SummaryReturned(p)))
            => /\ result[p] = "done"
               /\ \A i \in 1..Len(frames[p]) : frames[p][i].type # "error"
               /\ NodeStored(p) =>
                      /\ ~IsNull(messages[loc[p].msg_id].assistant_reply)
                      /\ IsNull(messages[loc[p].msg_id].summary)

\* C15 witness: the summary call raised something that is not an upstream
\* error after the done frame, and the generator ended there.
C15_Witness ==
    \E p \in Threads :
        /\ Replying(p)
        /\ pc[p] = "finished"
        /\ Did(p, "complete")
        /\ IsNull(SummaryReturned(p))
        /\ frames[p][Len(frames[p])].type = "done"
        /\ result[p] = "AttributeError"
        /\ ~Did(p, "set_title")

\* the admission of a reply request fails: the conversation does not exist
\* or the configuration was never stored
Rejections == {"HTTP_404", "HTTP_400"}

\* C16: a reply request on a conversation that does not exist, or made while
\* no configuration is stored, is rejected (404 or 400) in its first step:
\* it writes no frame, makes no upstream call, inserts no node and leaves the
\* store unchanged.
C16_RejectedBeforeAnyEffect ==
    [][\A p \in Threads :
          (/\ pc[p] = "idle"
           /\ loc'[p].kind = "reply"
           /\ \/ loc'[p].conversation_id \notin DOMAIN conversations
              \/ IsNull(config))
              => /\ pc'[p] = "finished"
                 /\ result'[p] \in Rejections
                 /\ frames'[p] = <<>>
                 /\ calls'[p] = <<>>
                 /\ loc'[p].msg_id = NoId
                 /\ UNCHANGED <<conversations, messages, nextConvId,
                                nextMsgId, config>>]_vars

\* C16 witness: a request on an existing conversation was rejected with 400
\* because no configuration is stored; it wrote no frame and no message exists.
C16_Witness ==
    /\ messages = <<>>
    /\ \E p \in Threads :
           /\ Replying(p)
           /\ result[p] = "HTTP_400"
           /\ loc[p].conversation_id \in DOMAIN conversations
           /\ IsNull(config)
           /\ frames[p] = <<>>

\* p's generator has handed over the done frame of the request for node m
DoneEmitted(p, m) ==
    /\ Replying(p)
    /\ loc[p].msg_id = m
    /\ frames[p] # <<>>
    /\ frames[p][Len(frames[p])].type = "done"

\* C17: once a request has emitted its done frame, the assistant_reply of its
\* node is eventually stored, whether or not the client keeps reading.
C17_DoneLeadsToReplyStored ==
    \A p \in Threads : \A m \in MsgIds :
        DoneEmitted(p, m)
            ~> (m \in DOMAIN messages /\ ~IsNull(messages[m].assistant_reply))

\* C17 witness: the client went away at the done frame and the node of the
\* request is stored without assistant_reply.
C17_Witness ==
    \E p \in Threads :
        /\ pc[p] = "finished"
        /\ result[p] = "disconnected"
        /\ DoneEmitted(p, loc[p].msg_id)
        /\ NodeStored(p)
        /\ IsNull(messages[loc[p].msg_id].assistant_reply)

\* C18: the assistant_reply of a message is absent when the message is
\* created and, once set, never changes while the message exists.
C18_ReplyWrittenOnce ==
    [][\A m \in DOMAIN messages' :
          IF m \in DOMAIN messages
          THEN ~IsNull(messages[m].assistant_reply)
                   => messages'[m].assistant_reply = messages[m].assistant_reply
          ELSE IsNull(messages'[m].assistant_reply)]_vars

\* the message of conversation c with the greatest order_index, NoId when
\* the conversation has none
LastOf(msgs, c) ==
    IF ConvMsgs(msgs, c) = {} THEN NoId
    ELSE CHOOSE m \in ConvMsgs(msgs, c) :
             \A y \in ConvMsgs(msgs, c) : msgs[y].order_index <= msgs[m].order_index

\* thread p, serving a reply request, inserts its node in this step
InsertsNode(p) ==
    /\ Replying(p)
    /\ pc[p] = "cm_insert"
    /\ pc'[p] = "cm_fetch"

\* C19 (as claimed): the node of a reply request without parentId has as
\* parent the message with the greatest order_index among those existing when
\* the node is inserted (none exactly when the conversation is empty then),
\* and the node of a request with a parentId has that id as parent.
C19_ParentIsLastAtInsertion ==
    [][\A p \in Threads :
          InsertsNode(p) =>
              messages'[loc'[p].msg_id].parent_id =
                  IF loc[p].payload_parent_id = NoId
                  THEN LastOf(messages, loc[p].conversation_id)
                  ELSE loc[p].payload_parent_id]_vars

\* C19 (amended): a reply request without parentId picks, when it is
\* admitted, the message with the greatest order_index among those existing
\* at that moment (none exactly when the conversation is empty then), and the
\* node it inserts later has the picked message as parent; the node of a
\* request with a parentId has that id as parent.
C19_ParentIsLastAtAdmission ==
    [][\A p \in Threads :
          /\ (Replying(p) /\ pc[p] = "resolve" /\ pc'[p] = "cm_read")
                 => /\ loc[p].payload_parent_id = NoId
                    /\ loc'[p].parent_id = LastOf(messages, loc[p].conversation_id)
          /\ (Replying(p) /\ pc[p] = "cm_read" /\ pc'[p] = "cm_insert")
                 => loc'[p].parent_id = loc[p].parent_id
          /\ InsertsNode(p) =>
                 /\ messages'[loc'[p].msg_id].parent_id = loc[p].parent_id
                 /\ loc[p].payload_parent_id # NoId
                        => loc[p].parent_id = loc[p].payload_parent_id]_vars

\* C19 witness: a request without parentId inserted its node in a
\* conversation where message 1 had been renumbered above message 2, and the
\* parent of the node is message 1.
C19_Witness ==
    \E p \in Threads :
        /\ Replying(p)
        /\ loc[p].payload_parent_id = NoId
        /\ pc[p] = "cm_fetch"
        /\ loc[p].msg_id = 3
        /\ NodeStored(p)
        /\ {1, 2} \subseteq ConvMsgs(messages, loc[p].conversation_id)
        /\ messages[1].order_index > messages[2].order_index
        /\ messages[loc[p].msg_id].parent_id = 1

\* thread p served POST .../messages for a conversation that does not exist,
\* and create_message stored nothing
CreateOnMissing(p) ==
    /\ pc[p] = "finished"
    /\ loc[p].kind = "create"
    /\ loc[p].conversation_id \notin DOMAIN conversations
    /\ loc[p].msg_id = NoId

\* C20: createMessage on a conversation that does not exist fails with
\* InvalidInput (ValueError, which the handler reports as a client error), and
\* no stored message belongs to an absent conversation.
C20_MissingConversationIsInvalidInput ==
    /\ \A p \in Threads : CreateOnMissing(p) => result[p] = "ValueError"
    /\ \A m \in DOMAIN messages :
           messages[m].conversation_id \in DOMAIN conversations

\* C20 witness: the INSERT for a missing conversation was refused by the
\* foreign key, and the exception is not a ValueError.
C20_Witness ==
    \E p \in Threads :
        /\ CreateOnMissing(p)
        /\ result[p] = "IntegrityError_FOREIGN_KEY"

\* thread p serves a PATCH /messages request
Patching(p) == loc[p].kind = "patch"

\* C21: a PATCH with no field is refused with 400 and a PATCH of a message
\* that is not stored is refused with 404; neither changes the store, and
\* each status is given for its own failure only.
C21_EmptyAndMissingRefused ==
    [][\A p \in Threads :
          /\ (pc[p] = "idle" /\ Patching(p)' /\ loc'[p].fields = NoFields)
                 => /\ pc'[p] = "finished"
                    /\ result'[p] = "HTTP_400"
                    /\ UNCHANGED <<conversations, messages>>
          /\ (Patching(p) /\ pc[p] = "um_update" /\ pc'[p] # "um_update"
                  /\ loc[p].msg_id \notin DOMAIN messages)
                 => /\ pc'[p] = "um_fetch"
                    /\ UNCHANGED <<conversations, messages>>
          /\ (Patching(p) /\ pc[p] = "um_fetch" /\ pc'[p] = "finished")
                 => /\ UNCHANGED <<conversations, messages>>
                    /\ result'[p] = "HTTP_404"
                           <=> loc[p].msg_id \notin DOMAIN messages
          /\ (Patching(p)' /\ pc'[p] = "finished" /\ pc[p] # "finished"
                  /\ result'[p] = "HTTP_400")
                 => loc'[p].fields = NoFields]_vars

\* C21 witness: one PATCH was refused with 404 for a message that is not
\* stored while other messages are.
C21_Witness ==
    \E p \in Threads :
        /\ Patching(p)
        /\ result[p] = "HTTP_404"
        /\ loc[p].fields # NoFields
        /\ loc[p].msg_id \notin DOMAIN messages
        /\ messages # <<>>

\* every field given in f has the value stored in row
SameAsStored(row, f) ==
    /\ ~IsNull(f.content) => Get(f.content) = row.content
    /\ ~IsNull(f.order_index) => Get(f.order_index) = row.order_index
    /\ ~IsNull(f.summary) => f.summary = row.summary
    /\ ~IsNull(f.parent_id) => Get(f.parent_id) = row.parent_id
    /\ ~IsNull(f.assistant_reply) => f.assistant_reply = row.assistant_reply

\* C22: an update of an existing message with the values it already has
\* succeeds and changes nothing, and after any successful update the same
\* update applied again succeeds and leaves the store as it is.
C22_UpdateIdempotent ==
    [][\A p \in Threads :
          (Patching(p) /\ pc[p] = "um_update" /\ pc'[p] # "um_update"
               /\ loc[p].msg_id \in DOMAIN messages)
              => LET id == loc[p].msg_id
                     f == loc[p].fields
                 IN /\ SameAsStored(messages[id], f)
                           => /\ pc'[p] = "um_fetch"
                              /\ messages' = messages
                    /\ pc'[p] = "um_fetch"
                           => update_message(messages', id, f)
                                  = [res |-> "ok", msgs |-> messages']]_vars

\* C22 witness: a PATCH with order_index 0 succeeded on a message of a
\* conversation in which no message was ever renumbered or deleted, so the
\* message had order_index 0 before.
C22_Witness ==
    \E p \in Threads :
        /\ Patching(p)
        /\ result[p] = "ok"
        /\ loc[p].fields = [NoFields EXCEPT !.order_index = Some(0)]
        /\ loc[p].msg_id \in DOMAIN messages
        /\ messages[loc[p].msg_id].order_index = 0
        /\ messages[loc[p].msg_id].conversation_id \notin edited

\* C23: every stored message belongs to a stored conversation, and a
\* conversation that was deleted never comes back: deleteConversation removes
\* all its messages, and a reply request still running for it neither inserts
\* a node nor leaves one behind.
C23_NoMessageOfDeletedConversation ==
    /\ [](\A m \in DOMAIN messages :
              messages[m].conversation_id \in DOMAIN conversations)
    /\ [][\A c \in ConvIds :
              (c < nextConvId /\ c \notin DOMAIN conversations)
                  => c \notin DOMAIN conversations']_vars

\* C23 witness: the conversation of a reply request was deleted while the
\* reply was streaming; the request ended on the missing node and no message
\* of the conversation is stored.
C23_Witness ==
    \E p \in Threads :
        /\ Replying(p)
        /\ pc[p] = "finished"
        /\ Len(frames[p]) >= 2
        /\ loc[p].msg_id # NoId
        /\ loc[p].conversation_id \notin DOMAIN conversations
        /\ ~NodeStored(p)
        /\ result[p] = "ValueError"

\* thread p consumes a stream of the upstream client
Streaming(p) == loc[p].kind = "stream"

\* a data-bearing line, and the sentinel line
IsData(line) == line # <<>> /\ line[1] = "data:"
IsSentinel(line) == IsData(line) /\ DataOf(line) = J_DONE

\* the lines before the first sentinel line
BeforeSentinel(lines) ==
    IF \E i \in 1..Len(lines) : IsSentinel(lines[i])
    THEN SubSeq(lines, 1,
                (CHOOSE i \in 1..Len(lines) :
                     /\ IsSentinel(lines[i])
                     /\ \A j \in 1..(i - 1) : ~IsSentinel(lines[j])) - 1)
    ELSE lines

\* choices[0].delta.content of a line, "" when the line has none
DeltaContent(line) ==
    IF ~IsData(line) THEN ""
    ELSE LET x == json_loads(DataOf(line))
         IN IF x.t # "object" \/ "choices" \notin x.keys THEN ""
            ELSE LET cs == x.v["choices"]
                 IN IF cs.t # "list" \/ Len(cs.v) = 0 THEN ""
                    ELSE LET c == cs.v[1]
                         IN IF c.t # "object" \/ "delta" \notin c.keys THEN ""
                            ELSE LET d == c.v["delta"]
                                 IN IF d.t # "object" \/ "content" \notin d.keys
                                    THEN ""
                                    ELSE IF d.v["content"].t # "string" THEN ""
                                    ELSE d.v["content"].v

\* the non-empty delta contents of the lines before the sentinel, in order
ExpectedFragments(lines) ==
    LET b == BeforeSentinel(lines)
    IN SelectSeq([i \in 1..Len(b) |-> DeltaContent(b[i])], LAMBDA c : c # "")

\* the transport failed: no statement about the lines applies
TransportFailed(p) == result[p] \in {"LLMClientError", "ResponseNotRead"}

\* C24: whatever lines the server pushes, the stream ends without failure and
\* its fragments are exactly the non-empty choices[0].delta.content of the
\* data lines before the first sentinel line, in order.
C24_FragmentsOfAnyBody ==
    \A p \in Threads :
        (Streaming(p) /\ pc[p] = "finished" /\ ~TransportFailed(p))
            => /\ result[p] = "ok"
               /\ loc[p].received = ExpectedFragments(loc[p].lines)

\* C24 witness: a data line whose JSON text is not an object (null) ended the
\* stream with AttributeError after a fragment had been produced.
C24_Witness ==
    \E p \in Threads :
        /\ Streaming(p)
        /\ pc[p] = "finished"
        /\ result[p] = "AttributeError"
        /\ loc[p].received = <<"A">>
        /\ loc[p].lines[loc[p].i] = <<"data:", " ", J_null>>

\* the lines of the claim: every data line before the sentinel is the
\* sentinel, is no JSON, or is an object whose choices are missing, empty or
\* start with an object
ObjectLines(lines) ==
    \A i \in 1..Len(BeforeSentinel(lines)) :
        LET line == lines[i]
        IN IsData(line) => DataOf(line) \notin {J_null, J_bad_choice}

\* C24, the lines the code handles: on such a body the stream ends without
\* failure with exactly the expected fragments.
C24_FragmentsOfObjectLines ==
    \A p \in Threads :
        (Streaming(p) /\ pc[p] = "finished" /\ ~TransportFailed(p)
             /\ ObjectLines(loc[p].lines))
            => /\ result[p] = "ok"
               /\ loc[p].received = ExpectedFragments(loc[p].lines)

\* C24, a body handled as claimed: a fragment, a line with empty content
\* and the sentinel, after which no line is read.
C24_SentinelCuts ==
    \E p \in Threads :
        /\ Streaming(p)
        /\ result[p] = "ok"
        /\ loc[p].lines = <<<<"data:", J_B>>, <<"data:", " ", J_empty>>,
                            <<"data:", " ", J_DONE>>>>
        /\ loc[p].received = <<"B">>

\* s is an initial part of t
IsPrefix(s, t) == Len(s) <= Len(t) /\ SubSeq(t, 1, Len(s)) = s

\* C25, without the kind of the failure: calling stream runs none of its code
\* and cannot fail; every advance keeps the fragments already produced; an
\* ended or failed stream produces nothing more.
C25_LazyAndKept ==
    [][\A p \in Threads :
          /\ (pc[p] = "idle" /\ Streaming(p)')
                 => pc'[p] = "s_created" /\ result'[p] = "none"
          /\ (Streaming(p) /\ Streaming(p)')
                 => IsPrefix(loc[p].received, loc'[p].received)
          /\ (Streaming(p) /\ pc[p] = "finished")
                 => pc'[p] \in {"finished", "idle"}]_vars

\* C25: as above, and a stream whose first advance fails, by a connection
\* error or a non-success status, fails with UpstreamError (LLMClientError).
C25_TransportFailureIsUpstreamError ==
    /\ C25_LazyAndKept
    /\ [][\A p \in Threads :
             (Streaming(p) /\ pc[p] = "s_created" /\ pc'[p] = "finished")
                 => result'[p] = "LLMClientError"]_vars

\* C25 witness: the first advance of a stream met a non-success status and
\* the stream ended with httpx.ResponseNotRead, before any line was read.
C25_Witness ==
    \E p \in Threads :
        /\ Streaming(p)
        /\ pc[p] = "finished"
        /\ result[p] = "ResponseNotRead"
        /\ loc[p].lines = <<>>

\* C25, a failure after fragments: the connection broke after two fragments
\* were produced; the stream ended with LLMClientError and both stay.
C25_FailureAfterFragments ==
    \E p \in Threads :
        /\ Streaming(p)
        /\ pc[p] = "finished"
        /\ result[p] = "LLMClientError"
        /\ loc[p].received = <<"A", "B">>

\* thread p walks a path to the root
Walking(p) == loc[p].kind = "path"

\* C26: a walk never reads a message it has already collected (so it ends
\* after at most as many turns as there are messages), whatever update_message
\* did to parent_id before or during the walk.
C26_WalkVisitsOnce ==
    \A p \in Threads :
        Walking(p) =>
            \A i, j \in 1..Len(loc[p].acc) :
                loc[p].acc[i] = loc[p].acc[j] => i = j

\* C26 witness: message 1 is its own parent in the store and a walk from 1
\* has collected it twice and is about to read it again.
C26_Witness ==
    \E p \in Threads :
        /\ Walking(p)
        /\ pc[p] = "path_loop"
        /\ 1 \in DOMAIN messages
        /\ messages[1].parent_id = 1
        /\ loc[p].acc = <<1, 1>>
        /\ loc[p].parent_id = 1

\* C27: a walk that ends always ends without failure: it returns what it
\* collected, root first, and a non-empty result ends at the starting
\* message; a walk whose starting id is not stored returns the empty
\* sequence; a walk that meets a missing row stops at that turn.
C27_WalkNeverFails ==
    /\ [](\A p \in Threads :
            (Walking(p) /\ pc[p] = "finished")
                => /\ result[p] = "ok"
                   /\ loc[p].received = Reverse(loc[p].acc)
                   /\ loc[p].received # <<>>
                          => loc[p].received[Len(loc[p].received)] = loc[p].msg_id)
    /\ [][\A p \in Threads :
             (Walking(p) /\ pc[p] = "path_loop" /\ pc'[p] # pc[p]
                  /\ loc[p].parent_id # NoId
                  /\ loc[p].parent_id \notin DOMAIN messages)
                 => /\ result'[p] = "ok"
                    /\ loc'[p].received = Reverse(loc[p].acc)
                    /\ (loc[p].acc = <<>> => loc'[p].received = <<>>)]_vars

\* C27 witness: a walk from message 2 collected 2, its parent 1 was deleted
\* before the walk read it, and the walk returned the one message 2.
C27_Witness ==
    \E p \in Threads :
        /\ Walking(p)
        /\ pc[p] = "finished"
        /\ result[p] = "ok"
        /\ loc[p].msg_id = 2
        /\ loc[p].parent_id = 1
        /\ 1 \notin DOMAIN messages
        /\ loc[p].received = <<2>>

\* C27, the missing start: a walk from an id that is not stored returned the
\* empty sequence.
C27_MissingStart ==
    \E p \in Threads :
        /\ Walking(p)
        /\ pc[p] = "finished"
        /\ result[p] = "ok"
        /\ loc[p].acc = <<>>
        /\ loc[p].received = <<>>
        /\ loc[p].msg_id \notin DOMAIN messages

\* the prompts that p passed to llm_client.stream
StreamPrompts(p) ==
    {calls[p][k].messages : k \in {j \in 1..Len(calls[p]) : calls[p][j].fn = "stream"}}

\* C28: every prompt passed to stream begins with the system instruction and
\* ends with the user turn that carries the content of this request.
C28_PromptEndsWithRequest ==
    \A p \in Threads :
        Replying(p) =>
            \A prompt \in StreamPrompts(p) :
                /\ prompt[1] = Turn("system", ASSISTANT_SYSTEM_PROMPT)
                /\ prompt[Len(prompt)] = Turn("user", loc[p].content)

\* C28 witness: the node of the request was deleted before the history was
\* read, and stream was called with the system instruction alone.
C28_Witness ==
    \E p \in Threads :
        /\ Replying(p)
        /\ loc[p].msg_id # NoId
        /\ ~NodeStored(p)
        /\ StreamPrompts(p) = {<<Turn("system", ASSISTANT_SYSTEM_PROMPT)>>}

\* has a stored, non-empty reply
HasReply(row) == ~IsNull(row.assistant_reply) /\ Get(row.assistant_reply) # <<>>

\* C28, the prompt and the path: at the step that builds the prompt, with
\* path the walk from the node in the store of that moment, the prompt is the
\* system instruction, then the user turns of the path's messages in order,
\* each followed by an assistant turn exactly when the message has a stored,
\* non-empty reply; if the node is stored with the content of the request,
\* the last entry is the user turn with that content.
C28_PromptFollowsPath ==
    [][\A p \in Threads :
          (Replying(p) /\ pc[p] = "history" /\ pc'[p] # pc[p])
              => LET prompt == calls'[p][Len(calls'[p])].messages
                     path == get_message_path_to_root(messages, loc[p].msg_id).path
                     turns == Tail(prompt)
                     users == SelectSeq(turns, LAMBDA t : t.role = "user")
                     replied == SelectSeq(path, LAMBDA m : HasReply(messages[m]))
                     assistants == SelectSeq(turns, LAMBDA t : t.role = "assistant")
                 IN /\ prompt[1] = Turn("system", ASSISTANT_SYSTEM_PROMPT)
                    /\ users = [i \in 1..Len(path) |->
                                    Turn("user", messages[path[i]].content)]
                    /\ assistants = [i \in 1..Len(replied) |->
                                         Turn("assistant",
                                              Get(messages[replied[i]].assistant_reply))]
                    /\ \A k \in 1..Len(turns) :
                           turns[k].role = "assistant"
                               => /\ k > 1
                                  /\ turns[k - 1].role = "user"
                                  /\ \E i \in 1..Len(path) :
                                         /\ HasReply(messages[path[i]])
                                         /\ turns[k - 1].content = messages[path[i]].content
                                         /\ turns[k].content =
                                                Get(messages[path[i]].assistant_reply)
                    /\ (NodeStored(p)
                            /\ messages[loc[p].msg_id].content = loc[p].content)
                           => prompt[Len(prompt)] = Turn("user", loc[p].content)]_vars

\* C28, a prompt with history: the parent of the node has a stored reply and
\* the prompt is system, user, assistant, user.
C28_PromptWithHistory ==
    \E p \in Threads :
        /\ Replying(p)
        /\ \E prompt \in StreamPrompts(p) :
               /\ Len(prompt) = 4
               /\ prompt[2].role = "user"
               /\ prompt[3].role = "assistant"
               /\ prompt[4] = Turn("user", loc[p].content)

\* C29: in every state every non-null parent_id names a stored message, and
\* a step that removes a message removes every message that reaches it through
\* parent_id links.
C29_NoDanglingParent ==
    /\ [](\A m \in DOMAIN messages :
            messages[m].parent_id # NoId => messages[m].parent_id \in DOMAIN messages)
    /\ [][\A id \in DOMAIN messages :
             id \notin DOMAIN messages'
                 => \A m \in DOMAIN messages :
                        id \in AncestorsFrom({messages[m].parent_id} \ {NoId})
                            => m \notin DOMAIN messages']_vars

\* C29 witness: a walk from message 3 read the chain 3, 2, 1 up to its root,
\* and the store holds none of the three messages any more.
C29_Witness ==
    \E p \in Threads :
        /\ Walking(p)
        /\ pc[p] = "finished"
        /\ loc[p].received = <<1, 2, 3>>
        /\ nextMsgId = 4
        /\ DOMAIN messages = {}

\* thread p takes this step
Moves(p) ==
    <<pc[p], loc[p], frames[p], calls[p], trace[p], result[p]>>
        # <<pc'[p], loc'[p], frames'[p], calls'[p], trace'[p], result'[p]>>

\* C30: a step of a reply request removes no message, inserts at most its own
\* node, changes of the stored messages only assistant_reply and summary of
\* its own node, and of the conversations only the title of its own one.
C30_NarrowFrame ==
    [][\A p \in Threads :
          (Replying(p) /\ pc[p] # "finished" /\ Moves(p))
              => /\ DOMAIN messages \subseteq DOMAIN messages'
                 /\ DOMAIN messages' \ DOMAIN messages \subseteq {loc'[p].msg_id}
                 /\ \A m \in DOMAIN messages :
                        /\ messages'[m].content = messages[m].content
                        /\ messages'[m].order_index = messages[m].order_index
                        /\ messages'[m].parent_id = messages[m].parent_id
                        /\ messages'[m].conversation_id = messages[m].conversation_id
                        /\ m # loc[p].msg_id => messages'[m] = messages[m]
                 /\ DOMAIN conversations' = DOMAIN conversations
                 /\ \A c \in DOMAIN conversations :
                        c # loc[p].conversation_id
                            => conversations'[c] = conversations[c]]_vars

\* C30 witness: one reply request has stored its reply and the title of its
\* conversation while the node of a concurrent reply request in another
\* conversation has no reply yet and that conversation keeps its title.
C30_Witness ==
    \E p, q \in Threads :
        /\ p # q
        /\ Replying(p) /\ Replying(q)
        /\ pc[p] = "finished"
        /\ Did(p, "set_reply") /\ Did(p, "set_title")
        /\ pc[q] = "canned_save"
        /\ NodeStored(q)
        /\ IsNull(messages[loc[q].msg_id].assistant_reply)
        /\ loc[q].conversation_id # loc[p].conversation_id
        /\ loc[q].conversation_id \in DOMAIN conversations
        /\ conversations[loc[q].conversation_id].title = DEFAULT_TITLE

=============================================================================
